---- MODULE Spec2Model ----
(***************************************************************************)
(* APEX negotiation core: the seller-side negotiation engine               *)
(* (negotiation.py), the protocol dispatcher (agent.py), the settlement    *)
(* verifier (payments/settlement.py), the estimator (estimation.py), the   *)
(* buyer's call (buyer.py), the wallet's transfer (payments/wallet.py) and *)
(* the construction of a pricing (pricing.py).                             *)
(*                                                                         *)
(* Units.  A price held by the program (target, minimum, an offer, a       *)
(* counter, a price quoted by the LLM) is an integer number of mills       *)
(* (0.001 currency unit), so that prices with a sub-cent part exist and    *)
(* Decimal.quantize("0.01") is not the identity.  A decision price before  *)
(* quantize (the curve value, the suggested price) is an integer number of *)
(* fine units, Fine to the mill.  A ledger amount is an integer number of   *)
(* micro-units (the token's 6 decimals).  Arithmetic that the program does *)
(* in binary floating point is modelled exactly, except where the rounding *)
(* of the doubles decides a comparison: the verifier's tolerance test at   *)
(* a difference of exactly the tolerance, which is tabulated.              *)
(***************************************************************************)
EXTENDS Integers, Sequences, FiniteSets, TLC

\* ------------------------------------------------------------------ bounds

\* Cap on the receive_offer calls made on one curve-driven engine.
MaxCalls == 3
\* Cap on the receive_offer calls made on one LLM-driven engine.
MaxLlmCalls == 2
\* Negotiated.max_rounds ranges over 1..MaxRoundsB.
MaxRoundsB == 2
\* The clock runs over 0..MaxNow.
MaxNow == 2
\* The concession curve is followed for max_rounds in 1..MaxCurveRounds.
MaxCurveRounds == 5
\* The dispatcher receives at most MaxRequests requests.
MaxRequests == 2
\* Buyer.call's max_rounds ranges over 1..MaxBuyerRounds.
MaxBuyerRounds == 2
\* Each caller makes at most MaxTransfers transfer calls on the wallet.
MaxTransfers == 2

\* ------------------------------------------------------------- arithmetic

\* Mills in the quantum of Decimal.quantize(Decimal("0.01")).
Cent == 10
\* Fine units in a mill.
Fine == 10000

None == << >>
Some(v) == << v >>
IsNone(x) == x = << >>
Val(x) == x[1]
\* Python truthiness of an Optional[Decimal]: None and Decimal(0) are false.
Truthy(x) == ~IsNone(x) /\ Val(x) # 0

Max(a, b) == IF a >= b THEN a ELSE b
Abs(a) == IF a >= 0 THEN a ELSE 0 - a

\* n / d rounded to an integer, ties to the even neighbour (Decimal's default
\* ROUND_HALF_EVEN); d > 0.
RoundHalfEven(n, d) ==
  LET q == n \div d
      r == n % d
  IN IF 2 * r < d THEN q
     ELSE IF 2 * r > d THEN q + 1
     ELSE IF q % 2 = 0 THEN q ELSE q + 1

\* Decimal.quantize(Decimal("0.01")): fine units in, mills (a whole number of
\* cents) out.
Quantize(fine) == RoundHalfEven(fine, Fine * Cent) * Cent

\* ------------------------------------------------------- concession curve

\* A mutant of StrategyRisk: every strategy concedes as balanced does.
StrategyRiskBalanced(strategy) == "balanced"

\* _STRATEGY_RISK.get(strategy, 0.6): the row of the factor table; llm has no
\* entry and gets 0.6, the risk of balanced.
StrategyRisk(strategy) ==
  IF strategy \in {"firm", "balanced", "flexible"} THEN strategy ELSE "balanced"

\* 1 - exp(-0.65 * risk * round / max_rounds) in units of 1e-8, as math.exp
\* gives it, for risk 0.3 / 0.6 / 0.85, max_rounds 1..6 and round
\* 1..max_rounds:  FactorTable[risk][max_rounds][round].
FactorTable ==
  [firm |-> << <<17716534>>,
               <<9289766, 17716534>>,
               <<6293254, 12190457, 17716534>>,
               <<4758080, 9289766, 13605831, 17716534>>,
               <<3824929, 7503557, 11041481, 14444081, 17716534>>,
               <<3197755, 6293254, 9289766, 12190457, 14998391, 17716534>> >>,
   balanced |-> << <<32294313>>,
                   <<17716534, 32294313>>,
                   <<12190457, 22894841, 32294313>>,
                   <<9289766, 17716534, 25360475, 32294313>>,
                   <<7503557, 14444081, 20863818, 26801847, 32294313>>,
                   <<6293254, 12190457, 17716534, 22894841, 27747265, 32294313>> >>,
   flexible |-> << <<42449076>>,
                   <<24137675, 42449076>>,
                   <<16820284, 30811349, 42449076>>,
                   <<12901019, 24137675, 33924688, 42449076>>,
                   <<10461367, 19828332, 28215384, 35725036, 42449076>>,
                   <<8797086, 16820284, 24137675, 30811349, 36897933, 42449076>> >>]

\* A mutant of Factor: round 0 concedes as round 1 does.
FactorFromOne(risk, max_rounds, round) ==
  FactorTable[risk][max_rounds][IF round = 0 THEN 1 ELSE round]

\* The factor of _exp_concession in units of 1e-8: 1 - exp(0) = 0 at round 0,
\* the table's entry after it.
Factor(risk, max_rounds, round) ==
  IF round = 0 THEN 0 ELSE FactorTable[risk][max_rounds][round]

\* _exp_concession: target - (target - minimum) * factor, in fine units.  The
\* product is taken in two halves of the factor's eight digits so that it
\* stays within 32-bit integers.
ExpConcession(target, minimum, round, max_rounds, risk) ==
  LET factor == Factor(risk, max_rounds, round)
      hi == factor \div Fine
      lo == factor % Fine
  IN target * Fine - ((target - minimum) * hi + ((target - minimum) * lo) \div Fine)

\* ------------------------------------------------------ negotiation engine

\* The hash of the entry before the first one.
GenesisHash == <<"0">>

\* hashlib.sha256(payload).hexdigest()[:16], taken as free of collisions: the
\* digest stands for the payload it was computed from.
Digest(prev_hash, party, action, price, ts) == <<prev_hash, party, action, price, ts>>

\* A mutant of Log: every entry is hashed as if it were the first.
LogUnchained(transcript, party, action, price, ts) ==
  Append(transcript, [party |-> party, action |-> action, price |-> price,
                      timestamp |-> ts,
                      hash |-> Digest(GenesisHash, party, action, price, ts)])

\* _log at time ts: appends the TranscriptEntry (party, action, price,
\* timestamp, hash), the hash chained to the last entry's.
Log(transcript, party, action, price, ts) ==
  LET prev_hash == IF Len(transcript) > 0 THEN transcript[Len(transcript)].hash
                   ELSE GenesisHash
  IN Append(transcript, [party |-> party, action |-> action, price |-> price,
                         timestamp |-> ts,
                         hash |-> Digest(prev_hash, party, action, price, ts)])

\* The strategy NegotiationEngine.__init__ derives from the pricing.
InitStrategy(pricing) ==
  IF pricing.strategy # "none" THEN pricing.strategy
  ELSE IF pricing.model THEN "llm"
  ELSE "balanced"

\* Seconds from construction to the engine's deadline, in clock units of 300 s.
DeadlineTtl == 1

\* NegotiationEngine.__init__ for a pricing with target and minimum.
NewEngine(pricing, now) ==
  [target |-> pricing.target,
   minimum |-> pricing.minimum,
   max_rounds |-> pricing.max_rounds,
   strategy |-> InitStrategy(pricing),
   model |-> pricing.model,
   state |-> "IN_PROGRESS",
   round |-> 0,
   deadline |-> now + DeadlineTtl,
   transcript |-> << >>,
   last_counter |-> None,
   best_buyer_offer |-> None]

Decision(action, price) == [action |-> action, price |-> price]

\* _curve_decide: accept at or above target, accept at or above the curve,
\* else counter at the (unrounded) curve price.
CurveDecide(e, offer) ==
  IF offer >= e.target THEN Decision("accept", None)
  ELSE LET counter_price ==
             ExpConcession(e.target, e.minimum, e.round, e.max_rounds,
                           StrategyRisk(e.strategy))
       IN IF offer * Fine >= counter_price THEN Decision("accept", None)
          ELSE Decision("counter", Some(counter_price))

\* concession_pct of _llm_decide, in 1/Fine.
ConcessionPct(round) ==
  IF round = 2 THEN 2500
  ELSE IF round = 3 THEN 4000
  ELSE IF round = 4 THEN 5500
  ELSE 7500

\* `suggested` of _llm_decide, in fine units.
Suggested(e, offer) ==
  IF e.round = 1 THEN e.target * Fine
  ELSE LET current_ceiling == IF Truthy(e.last_counter) THEN Val(e.last_counter)
                              ELSE e.target
           gap_to_offer == current_ceiling - offer
           s0 == current_ceiling * Fine - gap_to_offer * ConcessionPct(e.round)
           s1 == Max(s0, e.minimum * Fine)
       IN IF Truthy(e.last_counter) /\ s1 >= Val(e.last_counter) * Fine
          THEN Max(Val(e.last_counter) * 9700, e.minimum * Fine)
          ELSE s1

\* _parse_llm_response on a reply that parses: a counter price is clamped to
\* minimum, then to target; any other action is passed through as it is.
ParseLlmResponse(e, reply) ==
  IF reply.action = "counter"
  THEN LET p1 == IF reply.price < e.minimum THEN e.minimum ELSE reply.price
           p2 == IF p1 > e.target THEN e.target ELSE p1
       IN Decision("counter", Some(p2 * Fine))
  ELSE Decision(reply.action, None)

\* A mutant of LlmDecide: no acceptance at target before the LLM is asked.
LlmDecideAsksFirst(e, offer, reply) ==
  IF reply.action = "fail" THEN CurveDecide(e, offer)
  ELSE ParseLlmResponse(e, reply)

\* _llm_decide.  reply.action = "fail" stands for every reply on which the
\* try block raises (transport error, no JSON, missing action or price, a
\* price that is no number): the curve decides.
LlmDecide(e, offer, reply) ==
  IF e.round = 1 /\ offer >= e.target THEN Decision("accept", None)
  ELSE IF reply.action = "fail" THEN CurveDecide(e, offer)
  ELSE LET decision == ParseLlmResponse(e, reply)
       IN IF decision.action = "counter" /\ Truthy(e.last_counter)
             /\ Val(decision.price) > Val(e.last_counter) * Fine
          THEN Decision("counter", Some(Suggested(e, offer)))
          ELSE decision

\* The strategy dispatch of receive_offer.
Decide(e, offer, reply) ==
  IF e.strategy = "llm" /\ e.model THEN LlmDecide(e, offer, reply)
  ELSE CurveDecide(e, offer)

\* A mutant of ProtocolEnforce: no floor protection.
ProtocolEnforceOff(e, decision, offer) == decision

\* Protocol enforcement of receive_offer: a reject of an offer at or above
\* minimum becomes a counter at minimum.
ProtocolEnforce(e, decision, offer) ==
  IF decision.action = "reject" /\ offer >= e.minimum
  THEN Decision("counter", Some(e.minimum * Fine))
  ELSE decision

\* Monotonic decrease of receive_offer: a counter above the last one becomes
\* 98% of the last one, quantized, but not below minimum.
EnforceMonotonic(e, counter_price) ==
  IF ~IsNone(e.last_counter) /\ counter_price > Val(e.last_counter)
  THEN Max(Quantize(Val(e.last_counter) * 9800), e.minimum)
  ELSE counter_price

\* "Too many rounds" of receive_offer, tested after round is incremented.
RoundLimit(e) == e.round > e.max_rounds

\* What receive_offer hands back: the engine after the call, whether the call
\* raised, and the counter offer's price (or None).
Outcome(e, raised, counter) == [engine |-> e, raised |-> raised, counter |-> counter]

\* receive_offer with the decision taken.  A decision that is neither accept
\* nor reject is treated as a counter; its price is None for an action the
\* engine does not know, and decision.price.quantize raises AttributeError.
ProcessDecision(e, decision, offer, now) ==
  IF decision.action = "accept"
  THEN Outcome([e EXCEPT !.transcript = Log(@, "seller", "accept", Some(offer), now),
                         !.state = "ACCEPTED"], FALSE, None)
  ELSE IF decision.action = "reject"
  THEN Outcome([e EXCEPT !.transcript = Log(@, "seller", "reject", None, now),
                         !.state = "REJECTED"], FALSE, None)
  ELSE IF IsNone(decision.price)
  THEN Outcome(e, TRUE, None)
  ELSE LET counter_price == EnforceMonotonic(e, Quantize(Val(decision.price)))
       IN Outcome([e EXCEPT !.last_counter = Some(counter_price),
                            !.transcript = Log(@, "seller", "counter", Some(counter_price), now)],
                  FALSE, Some(counter_price))

\* A mutant of RoundLimitReject: the rejection is logged, the state is not set.
RoundLimitRejectNoState(e, now) ==
  Outcome([e EXCEPT !.transcript = Log(@, "system", "reject", None, now)], FALSE, None)

\* A mutant of RoundLimitReject: the offer past the last round is countered
\* at minimum.
RoundLimitRejectCounter(e, now) ==
  Outcome([e EXCEPT !.last_counter = Some(e.minimum),
                    !.transcript = Log(@, "seller", "counter", Some(e.minimum), now)],
          FALSE, Some(e.minimum))

\* The "too many rounds" branch of receive_offer.
RoundLimitReject(e, now) ==
  Outcome([e EXCEPT !.transcript = Log(@, "system", "reject", None, now),
                    !.state = "REJECTED"], FALSE, None)

\* A mutant of Expire: the expired call is counted as a round.
ExpireCounted(e, now) ==
  Outcome([e EXCEPT !.round = @ + 1,
                    !.transcript = Log(@, "system", "expired", None, now),
                    !.state = "EXPIRED"], FALSE, None)

\* The deadline branch of receive_offer.
Expire(e, now) ==
  Outcome([e EXCEPT !.transcript = Log(@, "system", "expired", None, now),
                    !.state = "EXPIRED"], FALSE, None)

\* A mutant of TrackBest: the last offer is kept, not the highest.
TrackBestLast(best, price) == Some(price)

\* best_buyer_offer after an offer: the higher of the two.
TrackBest(best, price) ==
  IF IsNone(best) \/ price > Val(best) THEN Some(price) ELSE best

\* NegotiationEngine.receive_offer(price) at time now, the LLM (if it is
\* asked) answering reply.
ReceiveOffer(e, price, reply, now) ==
  IF now > e.deadline
  THEN Expire(e, now)
  ELSE LET e1 == [e EXCEPT !.round = @ + 1,
                           !.transcript = Log(@, "buyer", "offer", Some(price), now),
                           !.best_buyer_offer = TrackBest(@, price)]
       IN IF RoundLimit(e1)
          THEN RoundLimitReject(e1, now)
          ELSE ProcessDecision(e1, ProtocolEnforce(e1, Decide(e1, price, reply), price),
                               price, now)

\* ------------------------------------------------------ payment verifier

\* Ledger micro-units per mill: amounts on the ledger carry USDC_DECIMALS = 6
\* decimals.
MicroPerMill == 1000

\* A float that holds a whole number of micro-units, and float("nan").
Float(micro) == [nan |-> FALSE, micro |-> micro]
NaN == [nan |-> TRUE, micro |-> 0]

\* An address is <<account, spelling>>: the same account may be spelled in
\* lower case or with the checksum's mixed case.
Address(account, spelling) == <<account, spelling>>

\* str.lower() on an address.
Lower(a) == <<a[1], "lower">>

\* NETWORKS: the token contract of each known network.
Networks ==
  [n \in {"base", "base-sepolia", "sepolia"} |-> Address("usdc-" \o n, "checksum")]

\* The pairs <<on-chain value, proof amount>> (micro-units), among those the
\* model draws that differ by exactly 0.01, for which the doubles give
\* abs(value / 10**6 - amount) > 0.01: abs(1.01 - 1.0) is
\* 0.010000000000000009, abs(12.51 - 12.5) is 0.009999999999999787.
RoundsAboveTolerance == { <<1010000, 1000000>> }

\* abs(amount - proof.amount) > tolerance on doubles; every comparison with
\* NaN is false.
ExceedsTolerance(value, amount, tolerance) ==
  IF amount.nan THEN FALSE
  ELSE IF Abs(value - amount.micro) = tolerance /\ tolerance > 0
  THEN <<value, amount.micro>> \in RoundsAboveTolerance
  ELSE Abs(value - amount.micro) > tolerance

\* Payment.verify.  tx is what the network's node answers for proof.tx_hash:
\* whether a call to it raises, the receipt's status (None when there is no
\* receipt) and the transaction.  Every exception is caught and gives False.
Verify(proof, expected_seller, tolerance, tx) ==
  IF proof.network \notin DOMAIN Networks THEN FALSE
  ELSE IF tx.rpc = "error" THEN FALSE
  ELSE IF IsNone(tx.status) THEN FALSE
  ELSE IF Val(tx.status) # 1 THEN FALSE
  ELSE IF Lower(tx.to) # Lower(Networks[proof.network]) THEN FALSE
  ELSE IF tx.fn # "transfer" THEN FALSE
  ELSE IF ~IsNone(expected_seller) /\ Lower(tx.arg_to) # Lower(Val(expected_seller))
  THEN FALSE
  ELSE IF Lower(tx.arg_to) # Lower(proof.to_address) THEN FALSE
  ELSE IF ExceedsTolerance(tx.arg_value, proof.amount, tolerance) THEN FALSE
  ELSE IF Lower(tx.from) # Lower(proof.from_address) THEN FALSE
  ELSE TRUE

\* The default of verify's tolerance parameter, 0.01.
DefaultTolerance == 10000

\* ------------------------------------------------------------------ state

VARIABLES
  now,      \* the wall clock (datetime.now), in units of 300 s
  engine,   \* one NegotiationEngine driven directly by its caller
  call,     \* the last receive_offer call on `engine`: its arguments, the
            \* LLM's reply to it and what it returned (None before the first)
  price,    \* Agent.price: the seller's Fixed or Negotiated pricing
  jobs,     \* Agent._negotiation_engines: job_id -> engine
  tasks,    \* requests suspended in `await self.run(input_data)`
  nextId,   \* the JSON-RPC id of the next request
  runs,     \* job_id -> how many times the handler was invoked for it
  accepted, \* the job_ids for which receive_offer has returned ACCEPTED
  resp,     \* the response the last step returned (None if it returned none)
  ledger,   \* the chain: tx_hash -> what the node answers for it
  proofs,   \* the PaymentProofs the buyer has built
  payments_received,  \* PaymentManager._payments_received: job_id -> proof
  check,    \* the last Payment.verify call: its arguments and its result
  cache,    \* EstimateCache._cache of the seller: estimate_id -> EstimateResult
  produced, \* the EstimateResults estimate_task has returned
  op,       \* the last estimator or cache call: its arguments and its result
  buyer,    \* one Buyer and its call(): configuration, position, current offer
  sent,     \* the JSON-RPC requests that call has sent, in order
  paid,     \* the payments that call has made (_make_payment), in order
  returned, \* what call returned or raised (None while it runs)
  wallet,   \* one Wallet instance: its _last_nonce
  chain,    \* the transactions the node has taken from that wallet, in order
  threads,  \* the transfer calls on that wallet: position, locals, result
  made,     \* the last Negotiated(...) construction: arguments and outcome
  curve     \* _exp_concession along the rounds of one pricing: inputs, prices

engineVars == <<engine, call>>
agentVars == <<price, jobs, tasks, nextId, runs, accepted, resp>>
settleVars == <<ledger, proofs, payments_received, check>>
estVars == <<cache, produced, op>>
buyerVars == <<buyer, sent, paid, returned>>
walletVars == <<wallet, chain, threads>>
clientVars == <<buyerVars, walletVars, made, curve>>
vars == <<now, engine, call, price, jobs, tasks, nextId, runs, accepted, resp,
          ledger, proofs, payments_received, check, cache, produced, op,
          buyer, sent, paid, returned, wallet, chain, threads, made, curve>>

\* -------------------------------------------------------- engine, driven

\* (target, minimum) pairs in mills: the spec's two scenarios, a floor with a
\* sub-cent part, a zero floor, and target = minimum.
PriceBounds ==
  { <<25000, 15000>>, <<10000, 5000>>, <<10000, 5005>>, <<1000, 0>>, <<506, 506>> }

\* (strategy, model) of a Negotiated pricing; "none" is strategy=None.
StrategyChoices ==
  { <<"firm", FALSE>>, <<"balanced", FALSE>>, <<"flexible", TRUE>>,
    <<"llm", TRUE>>, <<"llm", FALSE>>, <<"none", TRUE>>, <<"none", FALSE>> }

\* Negotiated pricings in legacy mode with target >= minimum >= 0 and
\* max_rounds >= 1.
Pricings ==
  { [target |-> b[1], minimum |-> b[2], max_rounds |-> m,
     strategy |-> s[1], model |-> s[2]] :
      b \in PriceBounds, m \in 1..MaxRoundsB, s \in StrategyChoices }

\* Buyer offers tried against an engine: just below the floor, the floor, a
\* cent below target, target.
OfferChoices(e) ==
  { p \in {e.minimum - 5, e.minimum, e.target - Cent, e.target} : p >= 0 }

\* The LLM was not asked.
NoReply == [action |-> "unasked", price |-> 0]

\* What the LLM may answer: a failure, accept, reject, an action the engine
\* does not know, or a counter at a price below the floor, just above it,
\* or above target.
LlmReplies(e) ==
  { [action |-> a, price |-> 0] : a \in {"fail", "accept", "reject", "other"} }
  \cup { [action |-> "counter", price |-> p] :
           p \in { q \in {e.minimum - 5, e.minimum + 4, e.target + 1000} : q >= 0 } }

LlmDriven(e) == e.strategy = "llm" /\ e.model

\* Whether receive_offer(price) at time now reaches _call_llm in _llm_decide:
\* before the deadline, within the rounds, on the llm strategy with a model,
\* and not the round-1 accept at target.
LlmAsked(e, offer, t) ==
  /\ t <= e.deadline
  /\ e.round + 1 <= e.max_rounds
  /\ LlmDriven(e)
  /\ ~(e.round + 1 = 1 /\ offer >= e.target)

\* receive_offer calls made so far: round counts those before the deadline,
\* each later one left an expired entry.
NumCalls(e) ==
  e.round + Cardinality({ i \in 1..Len(e.transcript) : e.transcript[i].action = "expired" })

JobIds == {"j1", "j2"}

EmptyMap == [k \in {} |-> None]

\* The dispatcher at rest: no pricing to serve, no job, no request.
AgentIdle ==
  /\ price = None
  /\ jobs = EmptyMap
  /\ tasks = {}
  /\ nextId = 1
  /\ runs = [j \in JobIds |-> 0]
  /\ accepted = {}
  /\ resp = None

\* No estimate made, an empty cache.
NoEstimates ==
  /\ cache = EmptyMap
  /\ produced = {}
  /\ op = None

\* No buyer call, no transfer, no pricing constructed.
NoClients ==
  /\ buyer = None
  /\ sent = << >>
  /\ paid = << >>
  /\ returned = None
  /\ wallet = None
  /\ chain = << >>
  /\ threads = << >>
  /\ made = None
  /\ curve = None

\* No payment made, none verified.
NoPayments ==
  /\ ledger = EmptyMap
  /\ proofs = {}
  /\ payments_received = EmptyMap
  /\ check = None

EngineInit ==
  /\ now = 0
  /\ call = None
  /\ \E pricing \in Pricings : engine = NewEngine(pricing, 0)
  /\ AgentIdle
  /\ NoPayments
  /\ NoEstimates
  /\ NoClients

\* Time passes.
Tick ==
  /\ now < MaxNow
  /\ now' = now + 1
  /\ UNCHANGED <<engineVars, agentVars, settleVars, estVars, clientVars>>

\* The caller makes one receive_offer call; a call that raises leaves the
\* engine as the exception found it.
EngineOffer ==
  /\ NumCalls(engine) < (IF LlmDriven(engine) THEN MaxLlmCalls ELSE MaxCalls)
  /\ \E offer \in OfferChoices(engine) :
       \E reply \in (IF LlmAsked(engine, offer, now) THEN LlmReplies(engine)
                     ELSE {NoReply}) :
         LET out == ReceiveOffer(engine, offer, reply, now)
         IN /\ engine' = out.engine
            /\ call' = Some([price |-> offer, reply |-> reply, raised |-> out.raised,
                             state |-> out.engine.state, counter |-> out.counter])
  /\ UNCHANGED <<now, agentVars, settleVars, estVars, clientVars>>

EngineNext == Tick \/ EngineOffer

EngineSpec == EngineInit /\ [][EngineNext]_vars

\* ---------------------------------------------------------------- estimator

\* ESTIMATE_EXPIRY_SECONDS = 300, in units of the clock.
EstimateTtl == 1
\* Multipliers are in thousandths: the clamp of _calculate_estimate is to
\* [0.25, 4.0].
MinMultiplier == 250
MaxMultiplier == 4000
\* MINIMUM_FLOOR_PCT = 0.80, in tenths.
FloorTenths == 8
\* base (mills) times multiplier (thousandths) is in millionths: so many to
\* a cent.
MicroPerCent == 10000

\* What the LLM call of estimate_task comes to: "fail" when _call_llm or
\* _parse_estimation_response raises (transport failure, no JSON, malformed
\* JSON, a multiplier float() refuses), else the float of the reply's
\* multiplier, float("nan") included (json.loads reads NaN).
EstimateReplies ==
  { [kind |-> "fail", nan |-> FALSE, milli |-> 0],
    [kind |-> "float", nan |-> TRUE, milli |-> 0] }
  \cup { [kind |-> "float", nan |-> FALSE, milli |-> m] :
           m \in {-1000, 100, 1006, 1500, 10000} }

\* The base rates of the sellers: 1.00, 10.01, 20.00.
BaseChoices == {1000, 10010, 20000}

\* The try/except of estimate_task: the reply's multiplier, 1.0 on any
\* exception.
ParsedMultiplier(reply) ==
  IF reply.kind = "fail" THEN [nan |-> FALSE, milli |-> 1000]
  ELSE [nan |-> reply.nan, milli |-> reply.milli]

\* max(0.25, min(4.0, multiplier)). min keeps its first argument unless the
\* second is smaller, max likewise unless the second is larger, and every
\* comparison with NaN is false: min(4.0, nan) is 4.0.
ClampMultiplier(m) ==
  LET capped == IF m.nan THEN MaxMultiplier
                ELSE IF m.milli < MaxMultiplier THEN m.milli ELSE MaxMultiplier
  IN IF capped > MinMultiplier THEN capped ELSE MinMultiplier

\* _calculate_estimate: amount and minimum are both rounded to cents from the
\* unrounded product. round(x, 2) on the doubles agrees with rounding the
\* decimal product on every input of BaseChoices and EstimateReplies.
CalculateEstimate(base, m) ==
  LET multiplier == ClampMultiplier(m)
      amount == base * multiplier
      minimum == amount * FloorTenths
  IN [amount |-> RoundHalfEven(amount, MicroPerCent) * Cent,
      minimum |-> RoundHalfEven(minimum, MicroPerCent * 10) * Cent,
      multiplier |-> multiplier]

\* The estimate ids uuid4 may give.
EstimateIds == {"est-1", "est-2"}

\* estimate_task: the EstimateResult it returns. It keeps no reference to
\* any cache.
EstimateResult(estimate_id, base, reply, t) ==
  LET estimate == CalculateEstimate(base, ParsedMultiplier(reply))
  IN [estimate_id |-> estimate_id, amount |-> estimate.amount,
      minimum |-> estimate.minimum, multiplier |-> estimate.multiplier,
      expires_at |-> t + EstimateTtl,
      target |-> estimate.amount, floor |-> estimate.minimum]

\* An expiry test that never fires.
ExpiredNever(result, t) == FALSE

\* EstimateResult.expired
Expired(result, t) == t > result.expires_at

\* EstimateCache._cleanup
Cleanup(m, t) ==
  LET kept == { k \in DOMAIN m : ~(m[k].expires_at < t) }
  IN [k \in kept |-> m[k]]

\* ------------------------------------------------------ protocol dispatcher

\* Negotiated(target=10, minimum=5, max_rounds=3, strategy="firm") with a
\* model configured.
ScenarioPricing ==
  [kind |-> "negotiated", target |-> 10000, minimum |-> 5000,
   max_rounds |-> 3, strategy |-> "firm", model |-> TRUE]

\* The pricings of the sellers served: Fixed(5.00), Negotiated(target=10,
\* minimum=5) with the curve alone (one, two or three rounds; the seller
\* with three has a model configured next to strategy "firm") or with the
\* LLM deciding, and Negotiated(base=20), whose __post_init__ sets the
\* default model.
AgentPricings ==
  { [kind |-> "fixed", amount |-> 5000] }
  \cup { [kind |-> "negotiated", target |-> 10000, minimum |-> 5000,
          max_rounds |-> s[1], strategy |-> s[2], model |-> s[3]] :
           s \in { <<1, "firm", FALSE>>, <<2, "firm", FALSE>>, <<1, "llm", TRUE>> } }
  \cup { ScenarioPricing }
  \cup { [kind |-> "negotiated", base |-> 20000, max_rounds |-> 2,
          strategy |-> "none", model |-> TRUE] }

\* Negotiated.uses_estimation: the pricing has a base rate.
UsesEstimation(pricing) == "base" \in DOMAIN pricing

\* offer.amount of a propose or counter request: below the price, at it,
\* above it (Fixed); just below the floor, the floor, target (Negotiated),
\* and 6.00 in place of the floor on the seller with three rounds; the base
\* rate (base mode).
AgentOffers ==
  IF price.kind = "fixed"
  THEN {price.amount - 2500, price.amount, price.amount + 1000}
  ELSE IF UsesEstimation(price) THEN {price.base}
  ELSE IF price.max_rounds = 3 THEN {price.minimum - 5, 6000, price.target}
  ELSE {price.minimum - 5, price.minimum, price.target}

\* terms.amount of an accept request.
AcceptTerms ==
  IF price.kind = "fixed" THEN {0, price.amount}
  ELSE IF UsesEstimation(price) THEN {price.base}
  ELSE {0, price.target}

\* params.estimate_id of a propose: none, or the id of the estimate the
\* buyer was given (base mode).
EstimateIdChoices ==
  IF UsesEstimation(price) THEN {None, Some("est-1")} ELSE {None}

\* The estimates a seller in base mode has made and stored before it takes
\* requests: one, of its base rate at the standard multiplier.
SellerEstimates(pricing) ==
  IF UsesEstimation(pricing)
  THEN { EstimateResult("est-1", pricing.base,
                        [kind |-> "fail", nan |-> FALSE, milli |-> 0], 0) }
  ELSE {}

\* What the LLM answers a seller's engine: a failure (the curve decides),
\* accept, or an action the engine does not know.
AgentLlmReplies ==
  { [action |-> a, price |-> 0] : a \in {"fail", "accept", "other"} }

\* dict.pop(job_id, None)
Pop(m, j) == [k \in DOMAIN m \ {j} |-> m[k]]

\* dict[job_id] = e
Put(m, j, e) == [k \in DOMAIN m \cup {j} |-> IF k = j THEN e ELSE m[k]]

\* _get_negotiation_engine: the job's engine, made on first use.
GetNegotiationEngine(m, j, t) ==
  IF j \in DOMAIN m THEN m[j] ELSE NewEngine(price, t)

\* NegotiationEngine.__init__ raises ValueError for a pricing in base mode.
\* _get_negotiation_engine passes self.price as it is, so the first use of a
\* job on such a seller raises.
EngineRaises(m, j) == j \notin DOMAIN m /\ UsesEstimation(price)

\* A JSON-RPC response, with what the request that it answers saw: `state` is
\* the state receive_offer returned to it ("none" if it made no call),
\* `known` whether its job_id was in the jobs map when it arrived, `ran`
\* how many times it invoked the handler.
Response(req, status, code, amount, output) ==
  [id |-> req.id, method |-> req.method, job |-> req.job, offer |-> req.amount,
   status |-> status, code |-> code, amount |-> amount, output |-> output,
   state |-> req.state, known |-> req.known, ran |-> req.ran,
   estimate_id |-> req.estimate_id]

\* A request as its handler sees it.
Request(method, j, amount) ==
  [id |-> nextId, method |-> method, job |-> j, amount |-> amount,
   state |-> "none", known |-> j \in DOMAIN jobs, ran |-> 0,
   estimate_id |-> None]

\* `output = await self.run(input_data)`: the handler is invoked and the
\* request is suspended until it returns or raises.
Await(req) ==
  /\ tasks' = tasks \cup {[req EXCEPT !.ran = @ + 1]}
  /\ runs' = [runs EXCEPT ![req.job] = @ + 1]
  /\ resp' = None

\* The Negotiated branch of _handle_propose and the body of _handle_counter
\* from receive_offer on.
Negotiate(req, e, reply) ==
  LET out == ReceiveOffer(e, req.amount, reply, now)
      r == [req EXCEPT !.state = out.engine.state]
  IN IF out.raised
     THEN /\ jobs' = Put(jobs, req.job, out.engine)
          /\ resp' = Some(Response(r, "error", -32603, None, FALSE))
          /\ UNCHANGED <<tasks, runs, accepted>>
     ELSE IF out.engine.state = "ACCEPTED"
     THEN /\ jobs' = Put(jobs, req.job, out.engine)
          /\ accepted' = accepted \cup {req.job}
          /\ Await(r)
     ELSE IF out.engine.state = "REJECTED"
     THEN /\ jobs' = Pop(jobs, req.job)
          /\ resp' = Some(Response(r, "error", -32018, None, FALSE))
          /\ UNCHANGED <<tasks, runs, accepted>>
     ELSE IF out.engine.state = "EXPIRED"
     THEN /\ jobs' = Pop(jobs, req.job)
          /\ resp' = Some(Response(r, "error", -32019, None, FALSE))
          /\ UNCHANGED <<tasks, runs, accepted>>
     ELSE /\ jobs' = Put(jobs, req.job, out.engine)
          /\ resp' = Some(Response(r, "counter", 0, out.counter, FALSE))
          /\ UNCHANGED <<tasks, runs, accepted>>

\* The LLM replies an engine may get to an offer.
RepliesTo(e, offer) ==
  IF LlmAsked(e, offer, now) THEN AgentLlmReplies ELSE {NoReply}

\* A mutant of FixedAccepts: an offer equal to the amount is refused.
FixedAcceptsAbove(offer) == offer > price.amount

\* The Fixed branch of _handle_propose takes an offer of at least the amount.
FixedAccepts(offer) == offer >= price.amount

\* _handle_propose up to its first suspension or its response.
Propose(j, offer, estimate_id) ==
  LET req == [Request("propose", j, offer) EXCEPT !.estimate_id = estimate_id]
  IN IF price.kind = "negotiated"
     THEN IF EngineRaises(jobs, j)
          THEN /\ resp' = Some(Response(req, "error", -32603, None, FALSE))
               /\ UNCHANGED <<jobs, tasks, runs, accepted>>
          ELSE LET e == GetNegotiationEngine(jobs, j, now)
               IN \E reply \in RepliesTo(e, offer) : Negotiate(req, e, reply)
     ELSE IF FixedAccepts(offer)
     THEN /\ Await(req)
          /\ UNCHANGED <<jobs, accepted>>
     ELSE /\ resp' = Some(Response(req, "error", -32017, Some(price.amount), FALSE))
          /\ UNCHANGED <<jobs, tasks, runs, accepted>>

\* _handle_counter up to its first suspension or its response.
Counter(j, offer) ==
  LET req == Request("counter", j, offer)
  IN IF price.kind # "negotiated"
     THEN /\ resp' = Some(Response(req, "error", -32007, None, FALSE))
          /\ UNCHANGED <<jobs, tasks, runs, accepted>>
     ELSE IF j \notin DOMAIN jobs
     THEN /\ resp' = Some(Response(req, "error", -32008, None, FALSE))
          /\ UNCHANGED <<jobs, tasks, runs, accepted>>
     ELSE \E reply \in RepliesTo(jobs[j], offer) : Negotiate(req, jobs[j], reply)

\* _handle_accept up to its suspension: the handler is invoked at once.
Accept(j, amount) ==
  /\ Await(Request("accept", j, amount))
  /\ UNCHANGED <<jobs, accepted>>

\* The methods a request may name: the four that Agent.handle routes, the
\* method Buyer._estimate sends, and a name no party of the protocol uses.
MethodChoices == {"discover", "propose", "counter", "accept", "estimate", "other"}

\* The job_id of a request that carries none.
NoJob == ""

\* The apex/discover branch of Agent.handle: answered at once with the
\* discovery result, no job touched.
Discover ==
  /\ resp' = Some(Response(Request("discover", NoJob, 0), "discovered", 0, None, FALSE))
  /\ UNCHANGED <<jobs, tasks, runs, accepted>>

\* The else branch of Agent.handle: any other method name is answered -32601.
MethodNotFound(method) ==
  /\ resp' = Some(Response(Request(method, NoJob, 0), "error", -32601, None, FALSE))
  /\ UNCHANGED <<jobs, tasks, runs, accepted>>

\* The if/elif chain of Agent.handle on the method name.
Dispatch(method) ==
  IF method = "discover" THEN Discover
  ELSE IF method = "propose"
  THEN \E j \in JobIds, offer \in AgentOffers, estimate_id \in EstimateIdChoices :
         Propose(j, offer, estimate_id)
  ELSE IF method = "counter"
  THEN \E j \in JobIds, offer \in AgentOffers : Counter(j, offer)
  ELSE IF method = "accept"
  THEN \E j \in JobIds, amount \in AcceptTerms : Accept(j, amount)
  ELSE MethodNotFound(method)

\* Agent.handle receives one request.
Receive ==
  /\ nextId <= MaxRequests
  /\ nextId' = nextId + 1
  /\ \E method \in MethodChoices : Dispatch(method)
  /\ UNCHANGED <<now, engineVars, price, settleVars, estVars, clientVars>>

\* The handler returns: the suspended request resumes, drops the job's engine
\* (not on the Fixed branch of propose) and answers completed.
HandlerReturns ==
  \E req \in tasks :
    /\ tasks' = tasks \ {req}
    /\ jobs' = IF req.method = "propose" /\ price.kind = "fixed" THEN jobs
               ELSE Pop(jobs, req.job)
    /\ resp' = Some(Response(req, "completed", 0,
                             Some(IF req.method = "propose" /\ price.kind = "fixed"
                                  THEN price.amount ELSE req.amount), TRUE))
    /\ UNCHANGED <<now, engineVars, price, nextId, runs, accepted, settleVars, estVars, clientVars>>

\* The handler raises: Agent.handle catches the exception and answers -32603.
HandlerRaises ==
  \E req \in tasks :
    /\ tasks' = tasks \ {req}
    /\ resp' = Some(Response(req, "error", -32603, None, FALSE))
    /\ UNCHANGED <<now, engineVars, price, jobs, nextId, runs, accepted, settleVars, estVars, clientVars>>

AgentInit ==
  /\ now = 0
  /\ engine = None
  /\ call = None
  /\ price \in AgentPricings
  /\ jobs = EmptyMap
  /\ tasks = {}
  /\ nextId = 1
  /\ runs = [j \in JobIds |-> 0]
  /\ accepted = {}
  /\ resp = None
  /\ NoPayments
  /\ produced = SellerEstimates(price)
  /\ cache = [id \in {r.estimate_id : r \in produced} |->
                CHOOSE r \in produced : r.estimate_id = id]
  /\ op = None
  /\ NoClients

AgentNext == Tick \/ Receive \/ HandlerReturns \/ HandlerRaises

AgentSpec == AgentInit /\ [][AgentNext]_vars

\* ------------------------------------------------- negotiation to settlement

SellerAddress == Address("seller", "checksum")
BuyerAddress == Address("buyer", "checksum")

\* The network of the buyer's wallet (DEFAULT_NETWORK).
DefaultNetwork == "base-sepolia"

\* Buyer.call after a completed response: with auto_pay the buyer pays the
\* final price (Payment.execute, Wallet.transfer) and holds the proof.  None
\* of the amounts paid here is changed by int(amount * 10**6).
BuyerPays ==
  /\ ~IsNone(resp)
  /\ Val(resp).status = "completed"
  /\ Val(resp).id \notin DOMAIN ledger
  /\ LET r == Val(resp)
         raw == Val(r.amount) * MicroPerMill
     IN /\ ledger' = Put(ledger, r.id,
                         [rpc |-> "ok", status |-> Some(1),
                          to |-> Networks[DefaultNetwork], fn |-> "transfer",
                          arg_to |-> SellerAddress, arg_value |-> raw,
                          from |-> BuyerAddress])
        /\ proofs' = proofs \cup
             { [job_id |-> r.job, tx_hash |-> r.id, network |-> DefaultNetwork,
                amount |-> Float(raw), from_address |-> BuyerAddress,
                to_address |-> SellerAddress] }
  /\ UNCHANGED <<now, engineVars, agentVars, estVars, clientVars, payments_received, check>>

\* PaymentManager.verify_payment on the seller's side, for a proof the buyer
\* hands over: a proof it holds, under the job_id it names (a PaymentProof is
\* the presenter's data).  A verified proof is recorded under its job_id.
VerifyPayment ==
  \E p \in proofs, j \in JobIds :
    LET proof == [p EXCEPT !.job_id = j]
    IN /\ Verify(proof, Some(SellerAddress), DefaultTolerance, ledger[proof.tx_hash])
       /\ payments_received' = Put(payments_received, j, proof)
       /\ UNCHANGED <<now, engineVars, agentVars, estVars, clientVars, ledger, proofs, check>>

ProtocolNext == AgentNext \/ BuyerPays \/ VerifyPayment

ProtocolSpec == AgentInit /\ [][ProtocolNext]_vars

\* ------------------------------------------------ the verifier on any input

\* What a node may answer for a transaction hash.
TxChoices ==
  { [rpc |-> "error", status |-> None, to |-> BuyerAddress, fn |-> "transfer",
     arg_to |-> SellerAddress, arg_value |-> 0, from |-> BuyerAddress] }
  \cup
  [ rpc : {"ok"},
    status : {None, Some(0), Some(1)},
    to : {Networks[DefaultNetwork], Lower(Networks[DefaultNetwork]),
          Address("other-token", "checksum")},
    fn : {"transfer", "approve", "undecodable"},
    arg_to : {SellerAddress, Lower(SellerAddress), Address("other", "checksum")},
    arg_value : {1000000, 1010000, 1020000, 12510000},
    from : {BuyerAddress, Lower(BuyerAddress), Address("other", "checksum")} ]

\* The proofs a caller may present for transaction 1.
ProofChoices ==
  [ job_id : {"j1"}, tx_hash : {1},
    network : {DefaultNetwork, "mainnet"},
    amount : {Float(1000000), Float(12500000), NaN},
    from_address : {BuyerAddress, Lower(BuyerAddress)},
    to_address : {SellerAddress, Address("other", "checksum")} ]

ExpectedSellerChoices ==
  {None, Some(Lower(SellerAddress)), Some(Address("other", "checksum"))}

ToleranceChoices == {0, DefaultTolerance}

VerifyInit ==
  /\ now = 0
  /\ engine = None
  /\ call = None
  /\ AgentIdle
  /\ \E tx \in TxChoices : ledger = [h \in {1} |-> tx]
  /\ proofs = {}
  /\ payments_received = EmptyMap
  /\ check = None
  /\ NoEstimates
  /\ NoClients

\* The one call of Payment.verify a run makes.
VerifyCall ==
  /\ IsNone(check)
  /\ \E p \in ProofChoices, expected_seller \in ExpectedSellerChoices,
        tolerance \in ToleranceChoices :
       check' = Some([proof |-> p, expected_seller |-> expected_seller,
                      tolerance |-> tolerance,
                      result |-> Verify(p, expected_seller, tolerance,
                                        ledger[p.tx_hash])])
  /\ UNCHANGED <<now, engineVars, agentVars, estVars, clientVars, ledger, proofs, payments_received>>

VerifyNext == VerifyCall

VerifySpec == VerifyInit /\ [][VerifyNext]_vars

\* ------------------------------------------------- estimate cache, driven

\* A call on the estimator or the cache, with what it returned.
Op(kind, id, found, base, reply) ==
  [kind |-> kind, id |-> id, found |-> found, at |-> now,
   base |-> base, reply |-> reply]

\* The reply field of a call that asks no LLM.
NoEstimateReply == [kind |-> "none", nan |-> FALSE, milli |-> 0]

\* estimate_task is called: a fresh id, the result returned to the caller.
EstimateTask ==
  \E id \in EstimateIds, base \in BaseChoices, reply \in EstimateReplies :
    /\ \A r \in produced : r.estimate_id # id
    /\ (id = "est-2" => \E r \in produced : r.estimate_id = "est-1")
    /\ LET result == EstimateResult(id, base, reply, now)
       IN /\ produced' = produced \cup {result}
          /\ op' = Some(Op("estimate", id, Some(result), base, reply))
    /\ UNCHANGED cache
    /\ UNCHANGED <<now, engineVars, agentVars, settleVars, clientVars>>

\* EstimateCache.store, called by the application with a result it holds.
Store ==
  \E result \in produced :
    /\ cache' = Cleanup(Put(cache, result.estimate_id, result), now)
    /\ op' = Some(Op("store", result.estimate_id, None, 0, NoEstimateReply))
    /\ UNCHANGED produced
    /\ UNCHANGED <<now, engineVars, agentVars, settleVars, clientVars>>

\* EstimateCache.get
Get ==
  \E id \in EstimateIds :
    /\ IF id \in DOMAIN cache /\ ~Expired(cache[id], now)
       THEN /\ op' = Some(Op("get", id, Some(cache[id]), 0, NoEstimateReply))
            /\ cache' = cache
       ELSE /\ op' = Some(Op("get", id, None, 0, NoEstimateReply))
            /\ cache' = Pop(cache, id)
    /\ UNCHANGED produced
    /\ UNCHANGED <<now, engineVars, agentVars, settleVars, clientVars>>

\* EstimateCache.remove
Remove ==
  \E id \in EstimateIds :
    /\ cache' = Pop(cache, id)
    /\ op' = Some(Op("remove", id, None, 0, NoEstimateReply))
    /\ UNCHANGED produced
    /\ UNCHANGED <<now, engineVars, agentVars, settleVars, clientVars>>

EstimateInit ==
  /\ now = 0
  /\ engine = None
  /\ call = None
  /\ AgentIdle
  /\ NoPayments
  /\ NoEstimates
  /\ NoClients

EstimateNext == Tick \/ EstimateTask \/ Store \/ Get \/ Remove

EstimateSpec == EstimateInit /\ [][EstimateNext]_vars

\* ------------------------------------------------------------ the buyer

Min(a, b) == IF a <= b THEN a ELSE b

\* round(x, 2) on a price: fine units in, mills (a whole number of cents) out.
Round2(fine) == RoundHalfEven(fine, Fine * Cent) * Cent

\* The risk _curve_counter takes for a strategy: 0.3 firm, 0.85 flexible,
\* 0.6 otherwise; the row of BuyerFactorTable.
BuyerRisk(strategy) ==
  IF strategy \in {"firm", "flexible"} THEN strategy ELSE "balanced"

\* 1 - exp(-risk * (round_num / max_rounds) * 3) in units of 1e-8, as math.exp
\* gives it, for risk 0.3 / 0.6 / 0.85, max_rounds 1..4 and round_num
\* 1..max_rounds:  BuyerFactorTable[risk][max_rounds][round_num].
BuyerFactorTable ==
  [firm |-> << <<59343034>>,
               <<36237185, 59343034>>,
               <<25918178, 45118836, 59343034>>,
               <<20148378, 36237185, 49084358, 59343034>> >>,
   balanced |-> << <<83470111>>,
                   <<59343034, 83470111>>,
                   <<45118836, 69880579, 83470111>>,
                   <<36237185, 59343034, 74075974, 83470111>> >>,
   flexible |-> << <<92191833>>,
                   <<72056903, 92191833>>,
                   <<57258507, 81731648, 92191833>>,
                   <<47138770, 72056903, 85228935, 92191833>> >>]

\* Buyer._calculate_initial_offer: half, three quarters or 0.6 of the budget.
CalculateInitialOffer(b) ==
  LET pct == IF b.strategy = "firm" THEN 500
             ELSE IF b.strategy = "flexible" THEN 750 ELSE 600
  IN Round2(b.budget * pct * (Fine \div 1000))

\* Buyer._calculate_offer_from_estimate: a share of the estimated amount, not
\* under 0.9 of the estimate's low, 0.6 of the budget if that is over budget.
CalculateOfferFromEstimate(b, estimate) ==
  LET pct == IF b.strategy = "firm" THEN 500
             ELSE IF b.strategy = "flexible" THEN 700 ELSE 550
      offer == Max(estimate.amount * pct * (Fine \div 1000),
                   estimate.low * 9 * (Fine \div 10))
      capped == IF offer > b.budget * Fine
                THEN b.budget * 6 * (Fine \div 10) ELSE offer
  IN Round2(Min(capped, b.budget * Fine))

\* Buyer._curve_counter: the offer moved towards min(budget, seller_offer) by
\* the factor of the round.
CurveCounter(b, my_offer, seller_offer, round_num, max_rounds) ==
  LET room == Min(b.budget, seller_offer) - my_offer
      factor == BuyerFactorTable[BuyerRisk(b.strategy)][max_rounds][round_num]
      hi == factor \div Fine
      lo == factor % Fine
      new_offer == my_offer * Fine + room * hi + (room * lo) \div Fine
  IN Round2(Min(new_offer, b.budget * Fine))

\* What the model answers to _llm_decide's prompt: nothing (the call or
\* json.loads raises, or the price is no number), an accept, a counter at a
\* price (below the buyer's offer, between offer and budget, over budget), a
\* counter that names no price, text without JSON, another action.
BuyerLlmReplies ==
  {[kind |-> k, price |-> 0] : k \in {"fail", "accept", "noprice", "nojson", "other"}}
    \cup {[kind |-> "counter", price |-> p] : p \in {2000, 8000, 15005}}

NoBuyerLlmReply == [kind |-> "none", price |-> 0]

\* The price _llm_decide suggests: the offer plus a share of the gap that
\* grows with the round, at most the budget.
SuggestedOffer(b, my_offer, seller_offer, round_num) ==
  LET pct == IF round_num <= 2 THEN 25
             ELSE IF round_num <= 3 THEN 40
             ELSE IF round_num <= 4 THEN 55 ELSE 75
      concession == (seller_offer - my_offer) * pct * (Fine \div 100)
  IN Round2(Min(my_offer * Fine + concession, b.budget * Fine))

\* Buyer._llm_decide with _parse_llm_response: the model's decision, a counter
\* price cut to the budget; the suggested price when the call fails.
BuyerLlmDecide(b, my_offer, seller_offer, round_num, reply) ==
  LET suggested_offer == SuggestedOffer(b, my_offer, seller_offer, round_num)
      nojson == b.budget * 8 * (Fine \div 10)
  IN CASE reply.kind = "fail" -> [action |-> "counter", price |-> suggested_offer]
       [] reply.kind = "accept" -> [action |-> "accept", price |-> 0]
       [] reply.kind = "counter" ->
            [action |-> "counter",
             price |-> Round2(Min(reply.price, b.budget) * Fine)]
       [] reply.kind = "noprice" ->
            [action |-> "counter",
             price |-> Round2(Min(suggested_offer, b.budget) * Fine)]
       [] reply.kind = "nojson" ->
            [action |-> "counter",
             price |-> Round2(Min(nojson, b.budget * Fine))]
       [] OTHER -> [action |-> "reject", price |-> 0]

\* Does _decide ask the model?  (strategy llm and a model configured)
BuyerAsksLlm(b) == b.strategy = "llm" /\ b.model

\* Buyer._decide: the model's decision for strategy llm; otherwise accept a
\* seller offer within budget (flexible: any; firm: up to 1.1 of the own
\* offer; else up to 1.1 of the midpoint), reject an offer over budget in the
\* last round, and counter on the curve in every other case.
BuyerDecide(b, my_offer, seller_offer, round_num, max_rounds, reply) ==
  IF BuyerAsksLlm(b)
  THEN BuyerLlmDecide(b, my_offer, seller_offer, round_num, reply)
  ELSE IF /\ seller_offer <= b.budget
          /\ \/ b.strategy = "flexible"
             \/ b.strategy = "firm" /\ 10 * seller_offer <= 11 * my_offer
             \/ /\ b.strategy \notin {"flexible", "firm"}
                /\ 20 * seller_offer <= 11 * (my_offer + seller_offer)
       THEN [action |-> "accept", price |-> 0]
       ELSE IF round_num >= max_rounds /\ seller_offer > b.budget
            THEN [action |-> "reject", price |-> 0]
            ELSE [action |-> "counter",
                  price |-> CurveCounter(b, my_offer, seller_offer,
                                         round_num, max_rounds)]

\* -------------------------------------------------- the buyer's call, driven

\* Budgets in mills.
Budgets == {6000, 10000}

\* The job_id call draws (uuid4) and uses in every request of the call.
BuyerJob == "job-1"

\* A Buyer at the start of call(): budget, strategy, whether a model is
\* configured, whether it pays by itself (auto_pay with a wallet), the
\* max_rounds argument; no round made, no offer computed, no estimate and no
\* seller offer seen, nothing decided.
Buyers ==
  {[budget |-> b, strategy |-> s[1], model |-> s[2], auto_pay |-> a,
    max_rounds |-> m, pc |-> "discover", round_num |-> 0, offer |-> 0,
    seller_address |-> FALSE, estimate_id |-> "", floor_price |-> 0,
    seller_offer |-> 0, decision |-> ""] :
     b \in Budgets,
     s \in {<<"firm", FALSE>>, <<"balanced", FALSE>>, <<"flexible", FALSE>>,
            <<"llm", FALSE>>, <<"llm", TRUE>>},
     a \in BOOLEAN, m \in 1..MaxBuyerRounds}

\* What _discover returns: None (the request failed), or the seller's info,
\* with or without a payment address, its pricing asking for estimation or not.
SellerInfos ==
  {[found |-> FALSE, address |-> FALSE, requires_estimation |-> FALSE]}
    \cup {[found |-> TRUE, address |-> a, requires_estimation |-> r] :
            a \in BOOLEAN, r \in BOOLEAN}

\* What _estimate returns: None or a result that is not "estimated", or an
\* estimate (amount, low, the negotiation floor), in mills.
EstimateAnswers ==
  {[estimated |-> FALSE, estimate_id |-> "", amount |-> 0, low |-> 0, floor |-> 0],
   [estimated |-> TRUE, estimate_id |-> "est-1", amount |-> 4000, low |-> 3200, floor |-> 3000],
   [estimated |-> TRUE, estimate_id |-> "est-1", amount |-> 10000, low |-> 8000, floor |-> 8000],
   [estimated |-> TRUE, estimate_id |-> "est-1", amount |-> 16000, low |-> 12800, floor |-> 12000]}

\* What a propose or counter request at an offer comes back with: the
\* transport raises, a JSON-RPC error (with or without a message), a completed
\* result whose terms.amount is the seller's to set (the offer, or another
\* amount), a counter of the seller at some price, a result of another status.
BuyerRpcReplies(offer) ==
  {[kind |-> k, amount |-> 0] : k \in {"raise", "error", "error_nomsg", "other"}}
    \cup {[kind |-> "completed", amount |-> p] : p \in {offer, 12000}}
    \cup {[kind |-> "counter", amount |-> p] : p \in {3000, 7000, 9000, 12000}}

\* What an accept request comes back with.
AcceptReplies == {"raise", "error", "completed"}

\* One JSON-RPC request of the call, with the kind of response it got.
BuyerRequest(method, job, offer, round_num, estimate_id, reply) ==
  [method |-> method, job |-> job, offer |-> offer, round |-> round_num,
   estimate_id |-> estimate_id, reply |-> reply]

\* What call returns (a NegotiationResult) or, with raised, the exception
\* that leaves it.
NegotiationResult(success, raised, rounds, error, final_price) ==
  [success |-> success, raised |-> raised, rounds |-> rounds, error |-> error,
   final_price |-> final_price]

\* A mutant of BudgetInsufficient: the floor is never held against the budget.
BudgetInsufficientNever(b, floor_price) == FALSE

\* `if floor_price > self.budget`
BudgetInsufficient(b, floor_price) == floor_price > b.budget

\* A mutant of RoundMethod: every round's offer goes out as a propose.
RoundMethodPropose(round_num) == "propose"

\* `if round_num == 1`: _propose, else _counter.
RoundMethod(round_num) == IF round_num = 1 THEN "propose" ELSE "counter"

\* `if self.auto_pay and self.wallet and seller_address`
BuyerWillPay(b) == b.auto_pay /\ b.seller_address

\* _make_payment for the job at an amount, with what the transfer reported.
MakePayment(b, amount, ok) ==
  IF BuyerWillPay(b)
  THEN Append(paid, [job |-> BuyerJob, amount |-> amount, success |-> ok])
  ELSE paid

\* call up to the first request of the round loop, step one: _discover.
BuyerDiscover ==
  /\ buyer.pc = "discover"
  /\ \E info \in SellerInfos :
       /\ sent' = Append(sent, BuyerRequest("discover", "", 0, 0, "",
                                         IF info.found THEN "info" ELSE "none"))
       /\ IF info.found /\ info.requires_estimation
          THEN buyer' = [buyer EXCEPT !.pc = "estimate",
                                      !.seller_address = info.address]
          ELSE buyer' = [buyer EXCEPT !.pc = "offer",
                                      !.seller_address = info.address,
                                      !.offer = CalculateInitialOffer(buyer)]
  /\ UNCHANGED <<paid, returned>>
  /\ UNCHANGED <<now, engineVars, agentVars, settleVars, estVars, walletVars, made, curve>>

\* Step two, for a seller that estimates: _estimate, the budget test against
\* the floor, the first offer.
BuyerEstimate ==
  /\ buyer.pc = "estimate"
  /\ \E answer \in EstimateAnswers :
       /\ sent' = Append(sent, BuyerRequest("estimate", "", 0, 0, "",
                                         IF answer.estimated THEN "estimated" ELSE "none"))
       /\ IF ~answer.estimated
          THEN /\ buyer' = [buyer EXCEPT !.pc = "offer",
                                         !.offer = CalculateInitialOffer(buyer)]
               /\ UNCHANGED returned
          ELSE IF BudgetInsufficient(buyer, answer.floor)
               THEN /\ buyer' = [buyer EXCEPT !.pc = "done",
                                              !.estimate_id = answer.estimate_id,
                                              !.floor_price = answer.floor]
                    /\ returned' = Some(NegotiationResult(FALSE, FALSE, 0,
                                                          "Budget insufficient", 0))
               ELSE /\ buyer' = [buyer EXCEPT
                                   !.pc = "offer",
                                   !.estimate_id = answer.estimate_id,
                                   !.floor_price = answer.floor,
                                   !.offer = CalculateOfferFromEstimate(buyer, answer)]
                    /\ UNCHANGED returned
  /\ UNCHANGED paid
  /\ UNCHANGED <<now, engineVars, agentVars, settleVars, estVars, walletVars, made, curve>>

\* The model is asked only about a seller counter, and only by _llm_decide.
LlmRepliesTo(b, reply) ==
  IF reply.kind = "counter" /\ BuyerAsksLlm(b)
  THEN BuyerLlmReplies ELSE {NoBuyerLlmReply}

\* A transfer is made, and can fail, only where the buyer pays.
PaymentOutcomes(b, pays) == IF pays /\ BuyerWillPay(b) THEN BOOLEAN ELSE {FALSE}

\* One pass of the round loop: the round's request (propose in round 1,
\* counter after it), its response, and what call does with it up to its next
\* request or its return.
BuyerRound ==
  /\ buyer.pc = "offer"
  /\ buyer.round_num < buyer.max_rounds
  /\ \E reply \in BuyerRpcReplies(buyer.offer) :
     \E llm \in LlmRepliesTo(buyer, reply) :
     \E ok \in PaymentOutcomes(buyer, reply.kind = "completed") :
       LET round_num == buyer.round_num + 1
           offer == buyer.offer
           method == RoundMethod(round_num)
           request == BuyerRequest(method, BuyerJob, offer, round_num,
                                   IF method = "propose" THEN buyer.estimate_id ELSE "",
                                   reply.kind)
           decision == BuyerDecide(buyer, offer, reply.amount, round_num,
                                   buyer.max_rounds, llm)
           last == round_num = buyer.max_rounds
           exceeded == Some(NegotiationResult(FALSE, FALSE, buyer.max_rounds,
                                              "Max rounds exceeded", 0))
           done(r) == /\ buyer' = [buyer EXCEPT
                                      !.pc = "done", !.round_num = round_num,
                                      !.seller_offer = IF reply.kind = "counter"
                                                       THEN reply.amount ELSE @,
                                      !.decision = IF reply.kind = "counter"
                                                   THEN decision.action ELSE @]
                      /\ returned' = Some(r)
                      /\ UNCHANGED paid
       IN /\ sent' = Append(sent, request)
          /\ CASE reply.kind = "raise" ->
                    done(NegotiationResult(FALSE, TRUE, round_num, "transport", 0))
               [] reply.kind = "error" ->
                    done(NegotiationResult(FALSE, FALSE, round_num, "upstream", 0))
               [] reply.kind = "error_nomsg" ->
                    done(NegotiationResult(FALSE, FALSE, round_num, "Unknown error", 0))
               [] reply.kind = "completed" ->
                    /\ buyer' = [buyer EXCEPT !.pc = "done", !.round_num = round_num]
                    /\ paid' = MakePayment(buyer, reply.amount, ok)
                    /\ returned' = Some(NegotiationResult(TRUE, FALSE, round_num, "",
                                                          reply.amount))
               [] reply.kind = "counter" /\ decision.action = "accept" ->
                    /\ buyer' = [buyer EXCEPT !.pc = "accept", !.round_num = round_num,
                                              !.seller_offer = reply.amount,
                                              !.decision = "accept"]
                    /\ UNCHANGED <<paid, returned>>
               [] reply.kind = "counter" /\ decision.action = "reject" ->
                    done(NegotiationResult(FALSE, FALSE, round_num, "Rejected", 0))
               [] OTHER ->
                    /\ buyer' = [buyer EXCEPT
                                   !.pc = IF last THEN "done" ELSE "offer",
                                   !.round_num = round_num,
                                   !.seller_offer = IF reply.kind = "counter"
                                                    THEN reply.amount ELSE @,
                                   !.decision = IF reply.kind = "counter"
                                                THEN decision.action ELSE @,
                                   !.offer = IF reply.kind = "counter"
                                             THEN decision.price ELSE offer]
                    /\ returned' = IF last THEN exceeded ELSE returned
                    /\ UNCHANGED paid
  /\ UNCHANGED <<now, engineVars, agentVars, settleVars, estVars, walletVars, made, curve>>

\* The buyer has decided to accept the seller's counter: the accept request,
\* the payment, the return.  The response is read by nothing: unless the
\* transport raises, call pays (if it pays at all) and returns success.
BuyerAccept ==
  /\ buyer.pc = "accept"
  /\ \E reply \in AcceptReplies :
     \E ok \in PaymentOutcomes(buyer, reply # "raise") :
       /\ sent' = Append(sent, BuyerRequest("accept", BuyerJob, buyer.seller_offer,
                                            buyer.round_num, "", reply))
       /\ buyer' = [buyer EXCEPT !.pc = "done"]
       /\ IF reply = "raise"
          THEN /\ returned' = Some(NegotiationResult(FALSE, TRUE, buyer.round_num,
                                                     "transport", 0))
               /\ UNCHANGED paid
          ELSE /\ paid' = MakePayment(buyer, buyer.seller_offer, ok)
               /\ returned' = Some(NegotiationResult(TRUE, FALSE, buyer.round_num, "",
                                                     buyer.seller_offer))
  /\ UNCHANGED <<now, engineVars, agentVars, settleVars, estVars, walletVars, made, curve>>

BuyerInit ==
  /\ now = 0
  /\ engine = None
  /\ call = None
  /\ AgentIdle
  /\ NoPayments
  /\ NoEstimates
  /\ buyer \in Buyers
  /\ sent = << >>
  /\ paid = << >>
  /\ returned = None
  /\ wallet = None
  /\ chain = << >>
  /\ threads = << >>
  /\ made = None
  /\ curve = None

BuyerNext == BuyerDiscover \/ BuyerEstimate \/ BuyerRound \/ BuyerAccept

BuyerSpec == BuyerInit /\ [][BuyerNext]_vars

\* ------------------------------------------------------------ the wallet

\* The callers of transfer on the one Wallet instance.  transfer takes no
\* lock, so calls from two threads interleave between its statements; one
\* caller alone (or one event loop: transfer has no await) makes its calls one
\* after the other.
Callers == {"t1", "t2"}

\* TransferResult(success, tx_hash, error); tx_hash None, or the place of the
\* transaction in `chain`.
TransferResult(success, tx_hash, error) ==
  [success |-> success, tx_hash |-> tx_hash, error |-> error]

\* A caller outside transfer that has made n calls; `last` is what its last
\* call returned and how that call went (None before the first).
Idle(n, last) ==
  [pc |-> "idle", calls |-> n, nonce |-> 0, tx_hash |-> None, last |-> last]

\* How a finished call went (refused for balance, refused by the node,
\* receipt status 1, reverted, receipt timed out) and what it returned.
Finished(how, res) == Some([how |-> how, result |-> res])

\* The nonce the next transaction of the account should carry: one more than
\* the highest nonce the node has taken.
NextNonce(txs) ==
  IF txs = << >> THEN 0
  ELSE 1 + CHOOSE n \in {txs[i].nonce : i \in 1..Len(txs)} :
             \A i \in 1..Len(txs) : txs[i].nonce <= n

\* What get_transaction_count(address, "pending") may report: the next nonce,
\* or a count that lags behind transactions already submitted.
ChainNonces(txs) == 0..NextNonce(txs)

\* The nonce transfer takes: one past the tracker when the tracker is not
\* behind the chain's count, else the chain's count.
PickNonce(last_nonce, chain_nonce) ==
  IF ~IsNone(last_nonce) /\ Val(last_nonce) >= chain_nonce
  THEN Val(last_nonce) + 1
  ELSE chain_nonce

\* A mutant of ReceiptResult: a receipt that does not arrive is a failure.
ReceiptResultStrict(receipt, tx_hash) ==
  IF receipt = "ok"
  THEN TransferResult(TRUE, tx_hash, "")
  ELSE TransferResult(FALSE, tx_hash, "Transaction reverted")

\* What transfer returns after the wait for the receipt: success for status
\* 1, failure for a revert, success again ("Pending confirmation") when the
\* wait raises, each with the tx_hash.
ReceiptResult(receipt, tx_hash) ==
  CASE receipt = "ok" -> TransferResult(TRUE, tx_hash, "")
    [] receipt = "reverted" -> TransferResult(FALSE, tx_hash, "Transaction reverted")
    [] OTHER -> TransferResult(TRUE, tx_hash, "Pending confirmation")

\* transfer up to the choice of the nonce: the balance test, the chain's
\* pending count, the read of the tracker.
TransferBegin(t) ==
  /\ threads[t].pc = "idle"
  /\ threads[t].calls < MaxTransfers
  /\ \E sufficient \in BOOLEAN, chain_nonce \in ChainNonces(chain) :
       IF ~sufficient
       THEN threads' = [threads EXCEPT ![t] =
              Idle(@.calls + 1,
                   Finished("balance",
                            TransferResult(FALSE, None, "Insufficient balance")))]
       ELSE threads' = [threads EXCEPT ![t] =
              [@ EXCEPT !.pc = "send", !.calls = @ + 1,
                        !.nonce = PickNonce(wallet.last_nonce, chain_nonce)]]
  /\ UNCHANGED <<wallet, chain>>
  /\ UNCHANGED <<now, engineVars, agentVars, settleVars, estVars, buyerVars, made, curve>>

\* transfer from the build of the transaction to the update of the tracker:
\* the node takes the signed transaction, and the tracker is set to its
\* nonce; or send_raw_transaction raises and transfer returns the failure.
TransferSend(t) ==
  /\ threads[t].pc = "send"
  /\ \E taken \in BOOLEAN :
       IF taken
       THEN /\ chain' = Append(chain, [nonce |-> threads[t].nonce, by |-> t])
            /\ wallet' = [wallet EXCEPT !.last_nonce = Some(threads[t].nonce)]
            /\ threads' = [threads EXCEPT ![t] =
                 [@ EXCEPT !.pc = "wait", !.tx_hash = Some(Len(chain) + 1)]]
       ELSE /\ threads' = [threads EXCEPT ![t] =
                 Idle(@.calls,
                      Finished("refused", TransferResult(FALSE, None, "rpc error")))]
            /\ UNCHANGED <<wallet, chain>>
  /\ UNCHANGED <<now, engineVars, agentVars, settleVars, estVars, buyerVars, made, curve>>

\* transfer after the send: the wait for the receipt (30 s) and the return.
TransferWait(t) ==
  /\ threads[t].pc = "wait"
  /\ \E receipt \in {"ok", "reverted", "timeout"} :
       threads' = [threads EXCEPT ![t] =
         Idle(@.calls, Finished(receipt, ReceiptResult(receipt, @.tx_hash)))]
  /\ UNCHANGED <<wallet, chain>>
  /\ UNCHANGED <<now, engineVars, agentVars, settleVars, estVars, buyerVars, made, curve>>

WalletInit ==
  /\ now = 0
  /\ engine = None
  /\ call = None
  /\ AgentIdle
  /\ NoPayments
  /\ NoEstimates
  /\ buyer = None
  /\ sent = << >>
  /\ paid = << >>
  /\ returned = None
  /\ wallet = [last_nonce |-> None]
  /\ chain = << >>
  /\ threads = [t \in Callers |-> Idle(0, None)]
  /\ made = None
  /\ curve = None

WalletNext ==
  \E t \in Callers : TransferBegin(t) \/ TransferSend(t) \/ TransferWait(t)

WalletSpec == WalletInit /\ [][WalletNext]_vars

\* ------------------------------------------------ constructing a pricing

\* The arguments Negotiated(...) is called with: base, target and minimum
\* given (in mills) or left None, max_rounds any integer.
NegotiatedArgs ==
  {[base |-> b, target |-> t, minimum |-> m, max_rounds |-> r] :
     b \in {None, Some(20000)},
     t \in {None, Some(5000), Some(10000)},
     m \in {None, Some(5000), Some(10000)},
     r \in {0 - 1, 0, 1, 2, 5}}

\* Negotiated.__post_init__ raises ValueError: no base, and target or minimum
\* missing.  It tests nothing else.
PostInitRaises(args) ==
  IsNone(args.base) /\ (IsNone(args.target) \/ IsNone(args.minimum))

\* Negotiated.uses_estimation
UsesEstimationArgs(args) == ~IsNone(args.base)

\* Negotiated(...) is called: it raises, or the pricing exists.
Construct ==
  /\ \E args \in NegotiatedArgs :
       made' = Some([args |-> args, raised |-> PostInitRaises(args),
                     engine |-> None])
  /\ UNCHANGED <<now, engineVars, agentVars, settleVars, estVars, buyerVars, walletVars, curve>>

\* NegotiationEngine(pricing) for the pricing that was constructed: it raises
\* for a pricing in base mode and otherwise takes target, minimum and
\* max_rounds as they are.
CreateEngine ==
  /\ ~IsNone(made)
  /\ ~Val(made).raised
  /\ ~UsesEstimationArgs(Val(made).args)
  /\ IsNone(Val(made).engine)
  /\ made' = Some([Val(made) EXCEPT !.engine =
                     Some(NewEngine([target |-> Val(Val(made).args.target),
                                     minimum |-> Val(Val(made).args.minimum),
                                     max_rounds |-> Val(made).args.max_rounds,
                                     strategy |-> "none",
                                     model |-> FALSE], now))])
  /\ UNCHANGED <<now, engineVars, agentVars, settleVars, estVars, buyerVars, walletVars, curve>>

PricingInit ==
  /\ now = 0
  /\ engine = None
  /\ call = None
  /\ AgentIdle
  /\ NoPayments
  /\ NoEstimates
  /\ NoClients

PricingNext == Construct \/ CreateEngine

PricingSpec == PricingInit /\ [][PricingNext]_vars

\* ------------------------------------------------ the curve, round by round

\* (target, minimum) pairs the curve is followed for, target >= minimum.
CurveBounds == PriceBounds \cup { <<20000, 16000>>, <<12345, 6789>> }

\* The rows of _STRATEGY_RISK.
Risks == {"firm", "balanced", "flexible"}

\* _exp_concession at one round for each strategy's risk, in fine units.
CurvePrices(target, minimum, round, max_rounds) ==
  [r \in Risks |-> ExpConcession(target, minimum, round, max_rounds, r)]

\* The curve of one pricing at round 0.
CurveInit ==
  /\ now = 0
  /\ engine = None
  /\ call = None
  /\ AgentIdle
  /\ NoPayments
  /\ NoEstimates
  /\ buyer = None
  /\ sent = << >>
  /\ paid = << >>
  /\ returned = None
  /\ wallet = None
  /\ chain = << >>
  /\ threads = << >>
  /\ made = None
  /\ \E b \in CurveBounds, m \in 1..MaxCurveRounds :
       curve = [target |-> b[1], minimum |-> b[2], max_rounds |-> m, round |-> 0,
                price |-> CurvePrices(b[1], b[2], 0, m),
                before |-> CurvePrices(b[1], b[2], 0, m)]

\* The curve is evaluated at the next round.
CurveStep ==
  /\ curve.round < curve.max_rounds
  /\ curve' = [curve EXCEPT
                 !.round = @ + 1,
                 !.before = curve.price,
                 !.price = CurvePrices(curve.target, curve.minimum,
                                       curve.round + 1, curve.max_rounds)]
  /\ UNCHANGED <<now, engineVars, agentVars, settleVars, estVars, buyerVars,
                 walletVars, made>>

CurveSpec == CurveInit /\ [][CurveStep]_vars

\* ------------------------------------------------- engine: the properties

\* The buyer offers among the first i transcript entries: the value of round
\* when entry i was written.
BuyerOffers(t, i) == Cardinality({ j \in 1..i : t[j].party = "buyer" })

CounterEntries(t) == { i \in 1..Len(t) : t[i].action = "counter" }

\* C1 (floor protection, I4): the engine enters REJECTED only in answer to an
\* offer below minimum or to an offer that takes round past max_rounds: every
\* reject entry of the transcript directly follows a buyer offer p with
\* p < minimum or with more than max_rounds offers made, and an engine in
\* state REJECTED has such an entry.
C1_FloorProtection ==
  LET t == engine.transcript
  IN /\ \A i \in 1..Len(t) :
          t[i].action = "reject" =>
            /\ i > 1
            /\ t[i - 1].party = "buyer"
            /\ \/ Val(t[i - 1].price) < engine.minimum
               \/ BuyerOffers(t, i) > engine.max_rounds
     /\ engine.state = "REJECTED" => \E i \in 1..Len(t) : t[i].action = "reject"

\* C1's case: in the last round the LLM answers an offer equal to minimum
\* with reject, and the engine counters instead of rejecting.
C1_Witness ==
  /\ ~IsNone(call)
  /\ Val(call).reply.action = "reject"
  /\ Val(call).price = engine.minimum
  /\ engine.round = engine.max_rounds
  /\ engine.state = "IN_PROGRESS"
  /\ ~IsNone(Val(call).counter)

\* C2 (counter monotonicity and bounds, I2) as the spec states it: the counter
\* prices one engine emits are non-increasing and each lies in
\* [minimum, target].
C2_CounterMonotoneInBounds ==
  LET t == engine.transcript
  IN /\ \A i \in CounterEntries(t) :
          /\ Val(t[i].price) >= engine.minimum
          /\ Val(t[i].price) <= engine.target
     /\ \A i, j \in CounterEntries(t) :
          i < j => Val(t[j].price) <= Val(t[i].price)

\* C3 (round bound, I1) as the spec states it: round <= max_rounds in every
\* reachable state.
C3_RoundNeverExceedsMax == engine.round <= engine.max_rounds

\* C3 amended: round <= max_rounds while the engine is IN_PROGRESS or
\* ACCEPTED; an offer that takes round past max_rounds is counted and then
\* answered with (system, reject), which leaves round > max_rounds in a
\* REJECTED (later EXPIRED) engine.
C3_RoundBound ==
  LET t == engine.transcript
  IN /\ engine.state \in {"IN_PROGRESS", "ACCEPTED"} => engine.round <= engine.max_rounds
     /\ \A i \in 1..Len(t) :
          (t[i].party = "buyer" /\ BuyerOffers(t, i) > engine.max_rounds) =>
            /\ i < Len(t)
            /\ t[i + 1].party = "system"
            /\ t[i + 1].action = "reject"

\* C3's case: the offer after the last round has been counted and rejected.
C3_Witness ==
  /\ engine.round = engine.max_rounds + 1
  /\ engine.state = "REJECTED"
  /\ ~IsNone(call)
  /\ IsNone(Val(call).counter)

\* C12 (hash chain, I3): in every state each transcript entry's hash is the
\* digest of the previous entry's hash (that of the first being "0") and the
\* entry's own party, action, price and timestamp, so recomputing the chain
\* from the recorded tuples gives the recorded hashes; and every step leaves
\* the entries already in the transcript as they were, in place.
C12_HashChain ==
  /\ [](\A i \in 1..Len(engine.transcript) :
          engine.transcript[i].hash =
            Digest(IF i = 1 THEN GenesisHash ELSE engine.transcript[i - 1].hash,
                   engine.transcript[i].party, engine.transcript[i].action,
                   engine.transcript[i].price, engine.transcript[i].timestamp))
  /\ [][/\ Len(engine'.transcript) >= Len(engine.transcript)
        /\ SubSeq(engine'.transcript, 1, Len(engine.transcript)) = engine.transcript]_vars

\* C12's case: a transcript of four entries written at two different times,
\* the last a counter chained to the offer before it.
C12_Witness ==
  /\ Len(engine.transcript) = 4
  /\ engine.transcript[1].timestamp < engine.transcript[4].timestamp
  /\ engine.transcript[4].action = "counter"
  /\ engine.transcript[4].hash[1] = engine.transcript[3].hash

\* C18 (monotonicity bypass) as the spec states it: when the engine has a
\* last_counter and the LLM answers an offer with a counter at a price above
\* it, the counter emitted is max(0.98 * last_counter, minimum), quantized.
C18_MonotonicityBypass ==
  LET t == engine.transcript
      earlier == CounterEntries(t) \ {Len(t)}
  IN (/\ ~IsNone(call)
      /\ Val(call).reply.action = "counter"
      /\ ~IsNone(Val(call).counter)
      /\ earlier # {}
      /\ Val(call).reply.price >
           Val(t[CHOOSE i \in earlier : \A k \in earlier : k <= i].price))
     => LET last_counter == Val(t[CHOOSE i \in earlier : \A k \in earlier : k <= i].price)
        IN Val(Val(call).counter) = Max(Quantize(last_counter * 9800), engine.minimum)

\* C31 (LLM fallback) as the spec states it: on an engine driven by the LLM,
\* whatever the LLM answers or however its call fails, receive_offer raises
\* nothing and ends in an accept, a reject or a counter.
C31_LlmFallback ==
  LET t == engine.transcript
  IN (~IsNone(call) /\ Val(call).reply.action # "unasked") =>
       /\ ~Val(call).raised
       /\ \/ ~IsNone(Val(call).counter)
          \/ t[Len(t)].action \in {"accept", "reject"}

\* C33 (no sale below the floor) as the spec states it: every (seller,
\* accept, p) entry of the transcript has p >= minimum, so the engine never
\* enters ACCEPTED on an offer below minimum.
C33_NoSaleBelowFloor ==
  \A i \in 1..Len(engine.transcript) :
    engine.transcript[i].action = "accept" =>
      Val(engine.transcript[i].price) >= engine.minimum

\* C35 (terminal states are absorbing) as the spec states it: a step from a
\* state in which the engine is ACCEPTED, REJECTED or EXPIRED leaves its
\* state, round, last_counter and transcript as they were, and a
\* receive_offer call made in such a state returns no counter.
C35_TerminalAbsorbing ==
  [][engine.state \in {"ACCEPTED", "REJECTED", "EXPIRED"} =>
       /\ engine'.state = engine.state
       /\ engine'.round = engine.round
       /\ engine'.last_counter = engine.last_counter
       /\ engine'.transcript = engine.transcript
       /\ call' # call => IsNone(Val(call').counter)]_vars

\* C38 (counter not below the offer) as the spec states it: a counter that
\* receive_offer returns for an offer p is at a price >= p.
C38_CounterNotBelowOffer ==
  (~IsNone(call) /\ ~IsNone(Val(call).counter)) =>
    Val(Val(call).counter) >= Val(call).price

\* C39 (bounded termination): once max_rounds + 1 offers have been made
\* before the deadline the engine is not IN_PROGRESS; offer number
\* max_rounds + 1 is followed in the transcript by (system, reject), and the
\* call that made it returned REJECTED and no counter, whatever its price.
C39_BoundedTermination ==
  LET t == engine.transcript
  IN /\ engine.round >= engine.max_rounds + 1 =>
          engine.state \in {"REJECTED", "EXPIRED"}
     /\ \A i \in 1..Len(t) :
          (t[i].party = "buyer" /\ BuyerOffers(t, i) = engine.max_rounds + 1) =>
            /\ i < Len(t)
            /\ t[i + 1].party = "system" /\ t[i + 1].action = "reject"
            /\ IsNone(t[i + 1].price)
     /\ (/\ ~IsNone(call)
         /\ engine.round = engine.max_rounds + 1
         /\ t[Len(t)].action # "expired") =>
          /\ Val(call).state = "REJECTED"
          /\ IsNone(Val(call).counter)
          /\ ~Val(call).raised

\* C39's case: offer number max_rounds + 1 was at target, on an engine that
\* had not yet reached a terminal state, and was rejected.
C39_Witness ==
  LET t == engine.transcript
  IN /\ engine.round = engine.max_rounds + 1
     /\ ~IsNone(call)
     /\ Val(call).price >= engine.target
     /\ Val(call).state = "REJECTED"
     /\ Len(t) >= 4
     /\ t[Len(t) - 2].action = "counter"

\* C40 (round bookkeeping): round is the number of (buyer, offer) entries in
\* the transcript, and best_buyer_offer is None when there is none and the
\* highest price among them otherwise.
C40_RoundBookkeeping ==
  LET t == engine.transcript
      offers == { i \in 1..Len(t) : t[i].party = "buyer" /\ t[i].action = "offer" }
  IN /\ engine.round = Cardinality(offers)
     /\ IsNone(engine.best_buyer_offer) <=> offers = {}
     /\ ~IsNone(engine.best_buyer_offer) =>
          /\ \E i \in offers : t[i].price = engine.best_buyer_offer
          /\ \A i \in offers : Val(t[i].price) <= Val(engine.best_buyer_offer)

\* C40's case: two offers counted, the second lower than the first, and a
\* later call that the deadline turned away without counting it.
C40_Witness ==
  LET t == engine.transcript
  IN /\ engine.round = 2
     /\ Len(t) >= 5
     /\ t[Len(t)].action = "expired"
     /\ Val(engine.best_buyer_offer) > Val(call).price

\* --------------------------------------------- dispatcher: the properties

\* C4 (handler exactly once) as the spec states it, on a Negotiated seller:
\* the handler has been invoked once for each job whose negotiation reached
\* ACCEPTED and never for any other job.
C4_HandlerExactlyOnce ==
  price.kind = "negotiated" =>
    \A j \in JobIds : runs[j] = (IF j \in accepted THEN 1 ELSE 0)

\* C5 (terminal removal) as the spec states it: when the response to a
\* propose or counter that drove the job's engine to ACCEPTED, REJECTED or
\* EXPIRED is returned, be it a -32603 error after the handler raised, the
\* job_id is not in the jobs map.
C5_TerminalRemoval ==
  (/\ ~IsNone(resp)
   /\ Val(resp).method \in {"propose", "counter"}
   /\ Val(resp).state \in {"ACCEPTED", "REJECTED", "EXPIRED"})
  => Val(resp).job \notin DOMAIN jobs

\* C6 (unknown job) as the spec states it, on a Negotiated seller: a counter
\* or accept request whose job_id was not in the jobs map is answered with
\* -32008 and does not invoke the handler.
C6_UnknownJob ==
  price.kind = "negotiated" =>
    /\ \A t \in tasks : t.method \in {"counter", "accept"} => t.known
    /\ (/\ ~IsNone(resp)
        /\ Val(resp).method \in {"counter", "accept"}
        /\ ~Val(resp).known)
       => (Val(resp).code = -32008 /\ Val(resp).ran = 0)

\* C7 (not negotiable) as the spec states it: on a Fixed seller a counter or
\* accept request is answered with -32007 and never invokes the handler.
C7_NotNegotiable ==
  price.kind = "fixed" =>
    /\ \A t \in tasks : t.method \notin {"counter", "accept"}
    /\ (~IsNone(resp) /\ Val(resp).method \in {"counter", "accept"})
       => (Val(resp).code = -32007 /\ Val(resp).ran = 0)

\* C8 (Fixed pricing propose) as the spec states it: the response to a
\* propose is completed, with the handler run once and terms.amount the
\* fixed amount, exactly when offer >= amount; otherwise it is -32017 naming
\* the amount with the handler not run; no engine is added to the jobs map.
C8_FixedPropose ==
  price.kind = "fixed" =>
    /\ jobs = EmptyMap
    /\ (~IsNone(resp) /\ Val(resp).method = "propose") =>
         IF Val(resp).offer >= price.amount
         THEN /\ Val(resp).status = "completed"
              /\ Val(resp).ran = 1
              /\ Val(resp).amount = Some(price.amount)
         ELSE /\ Val(resp).code = -32017
              /\ Val(resp).amount = Some(price.amount)
              /\ Val(resp).ran = 0

\* C8 amended: on a Fixed seller a propose with offer >= amount runs the
\* handler once and is answered completed with terms.amount the fixed amount
\* and the output, or with -32603 when the handler raised; a propose with
\* offer < amount is answered -32017 naming the amount without running the
\* handler; a propose is suspended in the handler only with offer >= amount;
\* no engine is added to the jobs map.
C8_FixedProposeOrHandlerError ==
  price.kind = "fixed" =>
    /\ jobs = EmptyMap
    /\ \A t \in tasks : t.method = "propose" => (t.amount >= price.amount /\ t.ran = 1)
    /\ (~IsNone(resp) /\ Val(resp).method = "propose") =>
         IF Val(resp).offer >= price.amount
         THEN /\ Val(resp).ran = 1
              /\ \/ /\ Val(resp).status = "completed"
                    /\ Val(resp).amount = Some(price.amount)
                    /\ Val(resp).output
                 \/ Val(resp).code = -32603
         ELSE /\ Val(resp).code = -32017
              /\ Val(resp).amount = Some(price.amount)
              /\ Val(resp).ran = 0

\* C8's case: a propose above the fixed amount has run the handler and is
\* answered completed at the fixed amount, not at the offer.
C8_Witness ==
  /\ price.kind = "fixed"
  /\ ~IsNone(resp)
  /\ Val(resp).method = "propose"
  /\ Val(resp).offer > price.amount
  /\ Val(resp).status = "completed"
  /\ Val(resp).amount = Some(price.amount)
  /\ runs[Val(resp).job] = 1

\* C11 (deadline): on every engine of the jobs map whose deadline has passed,
\* a receive_offer call, whatever the offer and the LLM, sets state to
\* EXPIRED, appends one (system, expired) entry and nothing else, leaves
\* round, last_counter and best_buyer_offer as they were and returns no
\* counter; a request whose receive_offer call returned EXPIRED is answered
\* -32019, has not invoked the handler and is never suspended in it, and its
\* job's engine is dropped.
C11_Deadline ==
  /\ \A j \in DOMAIN jobs :
       now > jobs[j].deadline =>
         \A offer \in AgentOffers, reply \in AgentLlmReplies \cup {NoReply} :
           LET out == ReceiveOffer(jobs[j], offer, reply, now)
               t == out.engine.transcript
               n == Len(jobs[j].transcript)
           IN /\ out.engine.state = "EXPIRED"
              /\ Len(t) = n + 1
              /\ SubSeq(t, 1, n) = jobs[j].transcript
              /\ t[n + 1].party = "system"
              /\ t[n + 1].action = "expired"
              /\ IsNone(t[n + 1].price)
              /\ [out.engine EXCEPT !.state = jobs[j].state,
                                    !.transcript = jobs[j].transcript] = jobs[j]
              /\ out.engine.round = jobs[j].round
              /\ out.engine.last_counter = jobs[j].last_counter
              /\ out.engine.best_buyer_offer = jobs[j].best_buyer_offer
              /\ ~out.raised
              /\ IsNone(out.counter)
  /\ \A t \in tasks : t.state # "EXPIRED"
  /\ (~IsNone(resp) /\ Val(resp).state = "EXPIRED") =>
       /\ Val(resp).code = -32019
       /\ Val(resp).status = "error"
       /\ Val(resp).ran = 0
       /\ Val(resp).job \notin DOMAIN jobs

\* C11's case: a counter sent after the deadline of its job's engine has
\* been answered -32019, the handler never having run for the job.
C11_Witness ==
  /\ ~IsNone(resp)
  /\ Val(resp).method = "counter"
  /\ Val(resp).known
  /\ Val(resp).state = "EXPIRED"
  /\ Val(resp).code = -32019
  /\ runs[Val(resp).job] = 0

\* C13: the dispatcher answers -32601 exactly for the method names other than
\* discover, estimate, propose, counter and accept: each of those five is routed
\* to its operation and never answered -32601, every other name is.
C13_MethodDispatch ==
  ~IsNone(resp) =>
    (Val(resp).code = -32601
       <=> Val(resp).method \notin {"discover", "estimate", "propose", "counter", "accept"})

\* C14: on a seller in base mode, a propose that carries the id of an
\* estimate that is in the cache and has not expired is answered counter or
\* completed, never with an internal error, and the engine it creates for the
\* job has the estimate's amount as target and its minimum as minimum.
C14_EstimatePropose ==
  (/\ ~IsNone(resp)
   /\ Val(resp).method = "propose"
   /\ UsesEstimation(price)
   /\ ~IsNone(Val(resp).estimate_id)
   /\ Val(Val(resp).estimate_id) \in DOMAIN cache
   /\ cache[Val(Val(resp).estimate_id)].expires_at >= now)
  => /\ Val(resp).code # -32603
     /\ Val(resp).status \in {"counter", "completed"}
     /\ Val(resp).status = "counter" =>
          /\ Val(resp).job \in DOMAIN jobs
          /\ jobs[Val(resp).job].target = cache[Val(Val(resp).estimate_id)].amount
          /\ jobs[Val(resp).job].minimum = cache[Val(Val(resp).estimate_id)].minimum

C20_TargetAcceptance ==
  (price.kind = "negotiated" /\ ~UsesEstimation(price)) =>
    /\ nextId = 1 =>
         \A s \in StrategyChoices, offer \in {price.target, price.target + 1000} :
           LET e == NewEngine([price EXCEPT !.strategy = s[1], !.model = s[2]], now)
           IN \A reply \in LlmReplies(e) \cup {NoReply} :
                LET out == ReceiveOffer(e, offer, reply, now)
                    t == out.engine.transcript
                IN /\ out.engine.state = "ACCEPTED"
                   /\ ~out.raised /\ IsNone(out.counter)
                   /\ IsNone(out.engine.last_counter)
                   /\ out.engine.round = 1
                   /\ Len(t) = 2
                   /\ t[1].party = "buyer" /\ t[1].action = "offer"
                   /\ t[1].price = Some(offer)
                   /\ t[2].party = "seller" /\ t[2].action = "accept"
                   /\ t[2].price = Some(offer)
    /\ \A t \in tasks :
         (t.method = "propose" /\ ~t.known /\ t.amount >= price.target) =>
           t.state = "ACCEPTED" /\ t.ran = 1
    /\ (/\ ~IsNone(resp)
        /\ Val(resp).method = "propose" /\ ~Val(resp).known
        /\ Val(resp).offer >= price.target)
       => /\ Val(resp).state = "ACCEPTED"
          /\ Val(resp).ran = 1
          /\ Val(resp).status \in {"completed", "error"}
          /\ Val(resp).status = "error" => Val(resp).code = -32603
          /\ Val(resp).status = "completed" => Val(resp).amount = Some(Val(resp).offer)

\* C20's case: on the seller whose LLM decides, a first propose at target has
\* been accepted without a counter, the handler has run and the response is
\* completed at the offered price.
C20_Witness ==
  /\ price.kind = "negotiated" /\ ~UsesEstimation(price)
  /\ price.strategy = "llm" /\ price.model
  /\ ~IsNone(resp)
  /\ Val(resp).method = "propose" /\ ~Val(resp).known
  /\ Val(resp).offer = price.target
  /\ Val(resp).state = "ACCEPTED"
  /\ Val(resp).status = "completed"
  /\ Val(resp).amount = Some(price.target)
  /\ runs[Val(resp).job] = 1

\* C21 (per-job serialisation) as the spec states it: at most one request of
\* a job is between its receive_offer call and the end of its handler, and no
\* request that called receive_offer on a job's engine did so while another
\* request's handler for that job was suspended.
C21_PerJobSerialisation ==
  /\ \A t1 \in tasks, t2 \in tasks : t1.job = t2.job => t1 = t2
  /\ (~IsNone(resp) /\ Val(resp).state # "none" /\ Val(resp).ran = 0) =>
       \A t \in tasks : t.job # Val(resp).job

\* C22 (handler ordering) as the spec states it: while the handler runs for a
\* request that reached it through ACCEPTED or through accept, the job_id is
\* not in the jobs map.
C22_RemovedBeforeHandler ==
  \A t \in tasks :
    (t.method = "accept" \/ t.state = "ACCEPTED") => t.job \notin DOMAIN jobs

\* C34 (accepted terms integrity) as the spec states it, on a Negotiated
\* seller: when an accept request is answered completed, the job has an
\* engine and terms.amount is the last counter that engine emitted; and a
\* completed response for a job that has an engine carries a terms.amount
\* of at least the engine's minimum.
C34_AcceptedTermsIntegrity ==
  [][(/\ resp' # resp
      /\ ~IsNone(resp')
      /\ Val(resp').status = "completed"
      /\ price.kind = "negotiated")
     => /\ Val(resp').method = "accept"
             => /\ Val(resp').job \in DOMAIN jobs
                /\ jobs[Val(resp').job].last_counter = Val(resp').amount
        /\ Val(resp').job \in DOMAIN jobs
             => Val(Val(resp').amount) >= jobs[Val(resp').job].minimum]_vars

\* ----------------------------------- estimator and cache: the properties

\* C15: every estimate estimate_task produces is inserted in the estimate
\* cache under its estimate_id: when the call returns, the cache holds the
\* estimate under that id (so that a get before expires_at returns it).
C15_EstimateCached ==
  (~IsNone(op) /\ Val(op).kind = "estimate") =>
    /\ Val(op).id \in DOMAIN cache
    /\ cache[Val(op).id] = Val(Val(op).found)

\* C16: get never returns an estimate whose expires_at has passed; on every
\* get, an id that is in the cache and not expired is returned and the cache
\* is left as it was; any other id (absent or expired) is answered nil and is
\* not in the cache afterwards, the rest of the cache being left as it was.
C16_CacheExpiry ==
  /\ []((~IsNone(op) /\ Val(op).kind = "get" /\ ~IsNone(Val(op).found)) =>
          /\ Val(Val(op).found).expires_at >= Val(op).at
          /\ Val(Val(op).found).estimate_id = Val(op).id)
  /\ [][(~IsNone(op') /\ Val(op').kind = "get" /\ Val(op').at = now /\ now' = now) =>
          LET id == Val(op').id
          IN IF id \in DOMAIN cache /\ cache[id].expires_at >= now
             THEN Val(op').found = Some(cache[id]) /\ cache' = cache
             ELSE /\ IsNone(Val(op').found)
                  /\ id \notin DOMAIN cache'
                  /\ DOMAIN cache' = DOMAIN cache \ {id}
                  /\ \A k \in DOMAIN cache' : cache'[k] = cache[k]]_vars

\* C16 happens: an estimate stored in the cache and read back has expired, a
\* get on its id has returned nil and the id has left the cache, while the
\* other estimate, stored later and still valid, stays.
C16_Witness ==
  /\ ~IsNone(op) /\ Val(op).kind = "get" /\ IsNone(Val(op).found)
  /\ \E r \in produced : r.estimate_id = Val(op).id /\ r.expires_at < Val(op).at
  /\ Val(op).id \notin DOMAIN cache
  /\ \E k \in DOMAIN cache : cache[k].expires_at >= now

\* C17: for every base and every reply of the LLM, the recorded multiplier is
\* in [0.25, 4.0], the recorded amount is base times that multiplier, and the
\* recorded minimum is 0.80 times the recorded amount rounded to cents.
C17_EstimatorArithmetic ==
  (~IsNone(op) /\ Val(op).kind = "estimate") =>
    LET est == Val(Val(op).found)
    IN /\ est.multiplier >= MinMultiplier /\ est.multiplier <= MaxMultiplier
       /\ (Val(op).reply.kind = "fail" => est.multiplier = 1000)
       /\ est.amount * 1000 = Val(op).base * est.multiplier
       /\ est.minimum = RoundHalfEven(est.amount * FloorTenths, Cent * 10) * Cent

\* --------------------------------------------- settlement: the properties

\* C9 (release after settlement) as the spec states it: a completed response
\* carries the handler's output only for a job whose payment the seller has
\* verified.
C9_ReleaseAfterSettlement ==
  (~IsNone(resp) /\ Val(resp).status = "completed" /\ Val(resp).output)
  => Val(resp).job \in DOMAIN payments_received

\* C10 (verifier equivalence, R1) as the spec states it: Payment.verify
\* returns true exactly when the network is known, a receipt exists with
\* success status, the transaction targets the token contract, its input
\* decodes as transfer(to, value), to is proof.to_address (and
\* expected_seller when given), value is within tolerance of proof.amount and
\* the sender is proof.from_address, addresses compared without regard to
\* case.
C10_VerifierEquivalence ==
  ~IsNone(check) =>
    LET c == Val(check)
        tx == ledger[c.proof.tx_hash]
    IN c.result <=>
         /\ c.proof.network \in DOMAIN Networks
         /\ tx.rpc = "ok"
         /\ tx.status = Some(1)
         /\ tx.to[1] = Networks[c.proof.network][1]
         /\ tx.fn = "transfer"
         /\ tx.arg_to[1] = c.proof.to_address[1]
         /\ (~IsNone(c.expected_seller) => tx.arg_to[1] = Val(c.expected_seller)[1])
         /\ ~c.proof.amount.nan
         /\ Abs(tx.arg_value - c.proof.amount.micro) <= c.tolerance
         /\ tx.from[1] = c.proof.from_address[1]

\* C37 (no proof replay) as the spec states it: the proofs that
\* verify_payment has verified and recorded for two different job_ids name two
\* different ledger transactions.
C37_NoProofReplay ==
  \A j1 \in DOMAIN payments_received, j2 \in DOMAIN payments_received :
    j1 # j2 => payments_received[j1].tx_hash # payments_received[j2].tx_hash

\* ------------------------------------------------- the buyer: the properties

\* C23 (buyer offer sequence): within one call every offer the buyer sends
\* (by propose or counter) is at most the budget and at least every offer it
\* sent before, whatever the strategy and whatever the seller and the model
\* answer.
C23_OfferSequence ==
  \A i \in 1..Len(sent), j \in 1..Len(sent) :
    (/\ i <= j
     /\ sent[i].method \in {"propose", "counter"}
     /\ sent[j].method \in {"propose", "counter"}) =>
      /\ sent[i].offer <= sent[j].offer
      /\ sent[j].offer <= buyer.budget

\* C24 (budget below floor): once the estimate has come back with a floor
\* above the budget, call has returned an unsuccessful result of 0 rounds, has
\* sent no propose, counter or accept request and has made no payment.
C24_BudgetBelowFloor ==
  (buyer.floor_price > buyer.budget) =>
    /\ buyer.pc = "done"
    /\ ~IsNone(returned)
    /\ ~Val(returned).success /\ ~Val(returned).raised
    /\ Val(returned).rounds = 0
    /\ \A i \in 1..Len(sent) : sent[i].method \in {"discover", "estimate"}
    /\ paid = << >>

\* C24 witness: an estimate with a floor above the budget has come back and
\* call has returned.
C24_Witness ==
  /\ buyer.floor_price > buyer.budget
  /\ Len(sent) = 2 /\ sent[2].method = "estimate" /\ sent[2].reply = "estimated"
  /\ ~IsNone(returned)

\* C25 (buyer round loop): the offers of a call are one propose, sent first as
\* round 1, followed by counters only, all for the call's job_id and numbered
\* 2, 3, ...; there are at most max_rounds of them; a call that has left the
\* estimate behind has sent its propose once it has returned; and when the
\* response to offer number max_rounds neither ended the negotiation nor made
\* the buyer accept or reject, call has returned an unsuccessful result of
\* max_rounds rounds with the error "Max rounds exceeded".
C25_RoundLoop ==
  LET offers == SelectSeq(sent, LAMBDA r : r.method \in {"propose", "counter"})
  IN /\ Len(offers) <= buyer.max_rounds
     /\ \A i \in 1..Len(offers) :
          /\ offers[i].method = (IF i = 1 THEN "propose" ELSE "counter")
          /\ offers[i].round = i
          /\ offers[i].job = BuyerJob
     /\ (~IsNone(returned) /\ buyer.floor_price <= buyer.budget) =>
          Len(offers) >= 1
     /\ (/\ Len(offers) = buyer.max_rounds
         /\ buyer.pc = "done"
         /\ \/ offers[Len(offers)].reply = "other"
            \/ offers[Len(offers)].reply = "counter" /\ buyer.decision = "counter") =>
          /\ ~IsNone(returned)
          /\ ~Val(returned).success /\ ~Val(returned).raised
          /\ Val(returned).rounds = buyer.max_rounds
          /\ Val(returned).error = "Max rounds exceeded"

\* C25 witness: a call of at least two rounds has sent max_rounds offers, the
\* seller has countered the last one, the buyer has countered again, and call
\* has returned.
C25_Witness ==
  /\ buyer.max_rounds >= 2
  /\ Len(sent) >= buyer.max_rounds
  /\ sent[Len(sent)].method = "counter"
  /\ sent[Len(sent)].round = buyer.max_rounds
  /\ sent[Len(sent)].reply = "counter"
  /\ buyer.decision = "counter"
  /\ ~IsNone(returned)

\* C26 (pay only on successful accept): when the accept request has come back
\* with a JSON-RPC error, the buyer has made no payment and the result of the
\* call is not a success.
C26_PayOnlyOnSuccessfulAccept ==
  \A i \in 1..Len(sent) :
    (sent[i].method = "accept" /\ sent[i].reply = "error") =>
      /\ paid = << >>
      /\ ~IsNone(returned) /\ ~Val(returned).success

\* C27 (buyer upstream failure): when a propose or counter request has failed
\* in transport or come back with a JSON-RPC error, it is the last request of
\* the call, no payment has been made, and call has returned (not raised) an
\* unsuccessful result whose error is the upstream message.
C27_UpstreamFailure ==
  \A i \in 1..Len(sent) :
    (/\ sent[i].method \in {"propose", "counter"}
     /\ sent[i].reply \in {"raise", "error"}) =>
      /\ i = Len(sent)
      /\ paid = << >>
      /\ ~IsNone(returned)
      /\ ~Val(returned).success /\ ~Val(returned).raised
      /\ Val(returned).error = (IF sent[i].reply = "raise" THEN "transport" ELSE "upstream")

\* C36 (buyer never exceeds budget) as the spec states it: within one call
\* the buyer decides to accept no seller price above its budget, sends no
\* accept request at a price above it, and passes no amount above it to
\* payment.
C36_NeverExceedsBudget ==
  /\ buyer.decision = "accept" => buyer.seller_offer <= buyer.budget
  /\ \A i \in 1..Len(sent) :
       sent[i].method = "accept" => sent[i].offer <= buyer.budget
  /\ \A i \in 1..Len(paid) : paid[i].amount <= buyer.budget

\* ------------------------------------------------ the wallet: the properties

\* C28 (nonce uniqueness): the transactions the node has taken from the wallet
\* carry strictly increasing nonces in the order of their submission (so no
\* two carry the same nonce), however the transfer calls interleave and
\* whatever pending count the node reports.
C28_NonceUniqueness ==
  \A i \in 1..Len(chain), j \in 1..Len(chain) :
    i < j => chain[i].nonce < chain[j].nonce

\* C29 (transfer outcome): a transfer whose receipt did not arrive in time
\* has returned success with its tx_hash; a transfer that reverted has
\* returned failure with its tx_hash; a transfer refused for insufficient
\* balance has returned failure without a tx_hash, and the step that refuses
\* it submits no transaction and leaves the nonce tracker as it was.
C29_TransferOutcome ==
  /\ [](\A t \in Callers :
          ~IsNone(threads[t].last) =>
            LET how == Val(threads[t].last).how
                res == Val(threads[t].last).result
            IN /\ how = "timeout" =>
                    /\ res.success
                    /\ ~IsNone(res.tx_hash)
                    /\ Val(res.tx_hash) \in 1..Len(chain)
                    /\ chain[Val(res.tx_hash)].by = t
               /\ how = "reverted" =>
                    /\ ~res.success
                    /\ ~IsNone(res.tx_hash)
                    /\ Val(res.tx_hash) \in 1..Len(chain)
                    /\ chain[Val(res.tx_hash)].by = t
               /\ how = "balance" => ~res.success /\ IsNone(res.tx_hash))
  /\ [][\A t \in Callers :
          (/\ threads[t].pc = "idle"
           /\ threads'[t].calls = threads[t].calls + 1
           /\ threads'[t].pc = "idle"
           /\ Val(threads'[t].last).how = "balance") =>
            chain' = chain /\ wallet' = wallet]_vars

\* C29 witness: one caller's transfer has timed out waiting for its receipt
\* and the other's has been refused for insufficient balance after the
\* tracker was set.
C29_Witness ==
  /\ ~IsNone(threads["t1"].last) /\ Val(threads["t1"].last).how = "timeout"
  /\ ~IsNone(threads["t2"].last) /\ Val(threads["t2"].last).how = "balance"
  /\ ~IsNone(wallet.last_nonce)

\* --------------------------------------------- the pricing: the properties

\* C30 (pricing validation): Negotiated(...) has raised whenever neither base
\* nor both target and minimum were given, whenever target < minimum, and
\* whenever max_rounds < 1; and every engine built from a pricing has
\* target >= minimum and max_rounds >= 1.
C30_PricingValidation ==
  ~IsNone(made) =>
    LET args == Val(made).args
    IN /\ (IsNone(args.base) /\ (IsNone(args.target) \/ IsNone(args.minimum))) =>
            Val(made).raised
       /\ (/\ ~IsNone(args.target) /\ ~IsNone(args.minimum)
           /\ Val(args.target) < Val(args.minimum)) => Val(made).raised
       /\ args.max_rounds < 1 => Val(made).raised
       /\ ~IsNone(Val(made).engine) =>
            /\ Val(Val(made).engine).target >= Val(Val(made).engine).minimum
            /\ Val(Val(made).engine).max_rounds >= 1

\* ----------------------------------------------- the curve: the properties

\* C32 (concession curve, I5): for target >= minimum and every round from 0
\* to max_rounds the curve price is target at round 0, is not above the
\* price of the round before, lies in [minimum, target], and is highest for
\* firm and lowest for flexible.
C32_ConcessionCurve ==
  /\ curve.round = 0 => \A r \in Risks : curve.price[r] = curve.target * Fine
  /\ \A r \in Risks :
       /\ curve.price[r] <= curve.before[r]
       /\ curve.price[r] >= curve.minimum * Fine
       /\ curve.price[r] <= curve.target * Fine
  /\ curve.price["firm"] >= curve.price["balanced"]
  /\ curve.price["balanced"] >= curve.price["flexible"]

\* C32's case: the curve of a pricing with target above minimum has been
\* followed to its last round, where the three strategies stand apart and
\* below the round before.
C32_Witness ==
  /\ curve.target > curve.minimum
  /\ curve.round = curve.max_rounds
  /\ curve.round >= 3
  /\ curve.price["firm"] > curve.price["balanced"]
  /\ curve.price["balanced"] > curve.price["flexible"]
  /\ curve.price["flexible"] < curve.before["flexible"]

====
